---- MODULE Spec2Model ----
(***************************************************************************)
(* Authentication and request-authorization core of the todo backend:     *)
(* signup and login (services/auth_service.py, routes/auth.py), the JWT   *)
(* gatekeeper (middleware/jwt_middleware.py) and the users table          *)
(* (models.py).                                                            *)
(*                                                                         *)
(* Time is counted in whole epoch seconds.  A naive datetime (the result  *)
(* of datetime.utcnow()) is represented by the number of seconds its      *)
(* wall-clock fields denote when read as UTC.                              *)
(***************************************************************************)
EXTENDS Integers, Sequences, FiniteSets, TLC

VARIABLES host, now, users, sreq, loginResp, gate, logoutResp,
          tasks, task_id_seq, taskResp, verifyResp, treq, console

vars == <<host, now, users, sreq, loginResp, gate, logoutResp,
          tasks, task_id_seq, taskResp, verifyResp, treq, console>>

\* the tasks table, its id sequence and the response of the latest task request
taskVars == <<tasks, task_id_seq, taskResp>>

(***************************************************************************)
(* Bounds of the model.                                                    *)
(***************************************************************************)
MaxProcs == 2          \* concurrent requests (signups; task requests in flight)
MaxSeconds == 1        \* seconds that pass while signups are in flight
MaxSalt == 1           \* distinct values bcrypt.gensalt() may draw
MaxTaskId == 1         \* ids the sequence of tasks.id hands out
MaxTodos == 1          \* Todo objects the console's caller constructs
MaxAdds == 2           \* calls of TodoStorage.add
T0 == 1700000000       \* epoch second at which the model starts

(***************************************************************************)
(* Program constants.                                                      *)
(***************************************************************************)
MinPasswordLen == 8    \* SignupRequest.password min_length
BcryptMaxBytes == 72   \* bytes of the password bcrypt takes into the digest
TokenTtlDays == 7      \* timedelta(days=7)
MinSecretLen == 32     \* Settings._validate: len(BETTER_AUTH_SECRET) < 32
SecondsPerDay == 86400
SecondsPerHour == 3600
MaxTitleLen == 100     \* Todo.__init__, TodoStorage.update: len(title) > 100

Procs == 1..MaxProcs
Salts == 1..MaxSalt

None == "None"

(***************************************************************************)
(* Inputs.  Passwords are byte sequences (password.encode("utf-8")).       *)
(***************************************************************************)

PwTooShort == [i \in 1..(MinPasswordLen - 1) |-> 1]
PwOk == [i \in 1..MinPasswordLen |-> 1]
PwLongA == [i \in 1..(BcryptMaxBytes + 1) |-> IF i > BcryptMaxBytes THEN 2 ELSE 1]
PwLongB == [i \in 1..(BcryptMaxBytes + 1) |-> IF i > BcryptMaxBytes THEN 3 ELSE 1]

\* the login request bodies of the model
LoginBodies ==
    { [email |-> "a@x.io", password |-> PwOk],
      [email |-> "a@x.io", password |-> PwLongA],
      [email |-> "a@x.io", password |-> PwLongB],
      [email |-> "b@x.io", password |-> PwOk] }

\* the signup request bodies of the model
SignupBodies ==
    { [email |-> "a@x.io", password |-> PwOk, name |-> "Ann"],
      [email |-> "a@x.io", password |-> PwLongA, name |-> None],
      [email |-> "a@x.io", password |-> PwTooShort, name |-> None],
      [email |-> "b@x.io", password |-> PwOk, name |-> None] }

(***************************************************************************)
(* The host: its local time zone and the behaviour of the installed       *)
(* bcrypt release, neither of which the source pins; the environment of   *)
(* the process; how far the application has come; and whether the          *)
(* database answers.                                                       *)
(*   bcryptStrict  bcrypt >= 5.0, which refuses passwords over 72 bytes    *)
(*   zone.std    seconds east of UTC in standard time                      *)
(*   zone.dst    whether the zone has daylight time                        *)
(*   zone.dstAt  local wall-clock second at which daylight time starts     *)
(*   environ     os.environ after load_dotenv(); "" is a variable not set  *)
(*   app         "starting", then "running" or "failed" (import of main)   *)
(*   store       "up" or "down"                                            *)
(***************************************************************************)
ZoneUtc == [std |-> 0, dst |-> FALSE, dstAt |-> 0]
ZoneEast == [std |-> 5 * SecondsPerHour, dst |-> FALSE, dstAt |-> 0]
ZoneWestDst ==
    [std |-> 0 - 5 * SecondsPerHour, dst |-> TRUE, dstAt |-> T0 + 3 * SecondsPerDay]
Zones == {ZoneUtc, ZoneEast, ZoneWestDst}

ValidSecret == "0123456789abcdef0123456789abcdef"
ShortSecret == "0123456789abcdef0123456789abcde"
SecretValues == {"", ShortSecret, ValidSecret}

ValidDatabaseUrl == "postgresql://todo@db.internal/todo"
DatabaseUrls == {"", "mysql://todo@db.internal/todo", ValidDatabaseUrl}

\* NODE_ENV; "None" when it is not set
NodeEnvs == {"production", "development", "staging", "None"}

Environs ==
    [BETTER_AUTH_SECRET : SecretValues, DATABASE_URL : DatabaseUrls,
     NODE_ENV : NodeEnvs]

ProductionEnviron ==
    [BETTER_AUTH_SECRET |-> ValidSecret, DATABASE_URL |-> ValidDatabaseUrl,
     NODE_ENV |-> "production"]

\* the hosts on which the application runs in production with its store up
Hosts ==
    [zone : Zones, bcryptStrict : BOOLEAN, environ : {ProductionEnviron},
     app : {"running"}, store : {"up"}]

\* a host in UTC at the start of the process, whatever its environment
StartingHosts ==
    [zone : {ZoneUtc}, bcryptStrict : {FALSE}, environ : Environs,
     app : {"starting"}, store : {"up"}]

\* str.startswith
StartsWith(str, prefix) ==
    Len(str) >= Len(prefix) /\ SubSeq(str, 1, Len(prefix)) = prefix

\* a validation that asks for a secret of any length
SettingsValidAnyLength(environ) ==
    /\ environ.BETTER_AUTH_SECRET # ""
    /\ environ.DATABASE_URL # ""
    /\ StartsWith(environ.DATABASE_URL, "postgresql://")

\* Settings._validate: TRUE when it returns, FALSE when it raises ValueError
SettingsValid(environ) ==
    /\ environ.BETTER_AUTH_SECRET # ""
    /\ Len(environ.BETTER_AUTH_SECRET) >= MinSecretLen
    /\ environ.DATABASE_URL # ""
    /\ StartsWith(environ.DATABASE_URL, "postgresql://")

Running == host.app = "running"

(***************************************************************************)
(* datetime.timestamp() of a naive datetime: the wall-clock fields are     *)
(* read as local time of the host's zone (mktime).                         *)
(***************************************************************************)
UtcOffset(zone, naive) ==
    IF zone.dst /\ naive >= zone.dstAt
    THEN zone.std + SecondsPerHour
    ELSE zone.std

NaiveTimestamp(zone, naive) == naive - UtcOffset(zone, naive)

\* datetime.utcnow(): the naive wall-clock reading of UTC at instant t
UtcNow(t) == t

\* naive + timedelta(days=d)
PlusDays(naive, d) == naive + d * SecondsPerDay

\* naive.isoformat() + "Z": the instant the string denotes to its reader
IsoZInstant(naive) == naive

(***************************************************************************)
(* bcrypt.  A digest is modelled by what it binds: the salt and the bytes  *)
(* of the password that enter the computation.  Releases before 5.0 drop   *)
(* every byte after the 72nd; from 5.0 on a longer password raises         *)
(* ValueError (host.bcryptStrict).                                         *)
(***************************************************************************)
Min(a, b) == IF a < b THEN a ELSE b

BcryptKey(password) == SubSeq(password, 1, Min(Len(password), BcryptMaxBytes))

BcryptRaises(strict, password) == strict /\ Len(password) > BcryptMaxBytes

\* bcrypt.hashpw(password, salt), defined where it does not raise
BcryptHashpw(password, salt) == [salt |-> salt, key |-> BcryptKey(password)]

\* a stored digest that is no bcrypt digest (a row not written by signup)
MalformedHash == [salt |-> 0 - 1, key |-> <<>>]

\* bcrypt.checkpw raises ValueError("Invalid salt") for a digest it cannot parse
BcryptInvalidSalt(hashed) == hashed.salt < 1

\* bcrypt.checkpw(password, hashed), defined where it does not raise
BcryptCheckpw(password, hashed) == BcryptHashpw(password, hashed.salt) = hashed

(***************************************************************************)
(* The users table.  A row is                                              *)
(*   [id, email, password_hash, name, created_at, updated_at].             *)
(***************************************************************************)
\* the absence of a digest, of a row (None) and of a user in a response
NoHash == [salt |-> 0, key |-> <<>>]
NoUser ==
    [id |-> 0, email |-> None, password_hash |-> NoHash, name |-> None,
     created_at |-> 0, updated_at |-> 0]
NoUserResponse ==
    [id |-> 0, email |-> None, name |-> None, created_at |-> 0, updated_at |-> 0]

\* a lookup whose filter never matches
FindByEmailNoMatch(rows, email) == NoUser

\* select(User).where(User.email == email).first()
FindByEmail(rows, email) ==
    IF \E u \in rows : u.email = email
    THEN CHOOSE u \in rows : u.email = email
    ELSE NoUser

\* select(User).where(User.id == user_id).first()
FindById(rows, id) ==
    IF \E u \in rows : u.id = id
    THEN CHOOSE u \in rows : u.id = id
    ELSE NoUser

\* a users table without the unique index
EmailNotIndexed(rows, email) == TRUE

\* the unique index on users.email: may a row with this email be inserted?
EmailUnique(rows, email) == \A u \in rows : u.email # email

\* default_factory of User.id (a fresh uuid4)
NewUserId(rows) == Cardinality(rows) + 1

\* User(email=..., password_hash=..., name=..., created_at=utcnow(), ...)
NewUser(rows, email, password_hash, name, t) ==
    [id |-> NewUserId(rows), email |-> email, password_hash |-> password_hash,
     name |-> name, created_at |-> UtcNow(t), updated_at |-> UtcNow(t)]

\* UserResponse: the fields of a row a response carries
UserResponse(u) ==
    [id |-> u.id, email |-> u.email, name |-> u.name,
     created_at |-> u.created_at, updated_at |-> u.updated_at]

(***************************************************************************)
(* Signup: POST /api/auth/signup.  One request per process; its position   *)
(* is sreq[p].pc: idle -> lookup -> hash -> commit -> done.                *)
(***************************************************************************)
MsgDuplicate == "This email is already registered. Please log in instead"
MsgBcryptLong == "password cannot be longer than 72 bytes, truncate manually if necessary (e.g. my_password[:72])"
\* f"An error occurred during signup: {str(e)}" for an IntegrityError: str(e)
\* is the driver's message, the statement "[SQL: INSERT INTO users ...]" and
\* its bound values "[parameters: {...}]", kept in detail_parameters
MsgSignupFault == "An error occurred during signup: IntegrityError"

\* the bound values SQLAlchemy prints in str(e) for a failed INSERT of row,
\* of which the model keeps the email and the password_hash
StatementParameters(row) ==
    [NoUser EXCEPT !.email = row.email, !.password_hash = row.password_hash]
MsgCreated == "Account created successfully. Please log in."

\* str(e) of the OperationalError raised by a statement the database does
\* not answer, and of the other exceptions by their names
StoreFailureText ==
    "(psycopg2.OperationalError) connection to server at db.internal failed"
ExceptionText(exc) ==
    IF exc = "OperationalError" THEN StoreFailureText ELSE exc

\* f"An error occurred during signup: {str(e)}"
SignupFaultDetail(exc) == "An error occurred during signup: " \o ExceptionText(exc)
MsgValidation == "validation error"

IdleReq ==
    [pc |-> "idle", email |-> None, password |-> <<>>, name |-> None,
     password_hash |-> NoHash, status |-> 0, detail |-> None,
     detail_parameters |-> NoUser, user |-> NoUserResponse]

\* the route's mapping of an exception raised by AuthService.signup
SignupErrorStatus(exc) == IF exc = "ValueError" THEN 409 ELSE 500

SignupFail(p, exc, msg) ==
    sreq' = [sreq EXCEPT ![p].pc = "done", ![p].password_hash = NoHash,
                         ![p].status = SignupErrorStatus(exc), ![p].detail = msg]

\* request validation by the SignupRequest model
SignupRequest(p) ==
    /\ sreq[p].pc = "idle"
    /\ \E body \in SignupBodies :
         sreq' = [sreq EXCEPT ![p] =
                    IF Len(body.password) < MinPasswordLen
                    THEN [IdleReq EXCEPT !.pc = "done", !.email = body.email,
                                         !.password = body.password,
                                         !.name = body.name, !.status = 422,
                                         !.detail = MsgValidation]
                    ELSE [IdleReq EXCEPT !.pc = "lookup", !.email = body.email,
                                         !.password = body.password,
                                         !.name = body.name]]
    /\ UNCHANGED <<host, now, users, loginResp, gate, logoutResp, taskVars, verifyResp, treq, console>>

\* a signup that hashes the password before it looks the email up
SignupHashThenLookup(p) ==
    /\ sreq[p].pc = "lookup"
    /\ \E salt \in Salts :
         LET hashed == BcryptHashpw(sreq[p].password, salt)
         IN IF FindByEmail(users, sreq[p].email) # NoUser
            THEN sreq' = [sreq EXCEPT ![p].pc = "done", ![p].status = 409,
                                      ![p].detail = MsgDuplicate]
            ELSE sreq' = [sreq EXCEPT ![p].pc = "commit",
                                      ![p].password_hash = hashed]
    /\ UNCHANGED <<host, now, users, loginResp, gate, logoutResp, taskVars, verifyResp, treq, console>>

\* AuthService.signup: the uniqueness lookup
SignupLookup(p) ==
    /\ sreq[p].pc = "lookup"
    /\ IF host.store = "down"
       THEN SignupFail(p, "OperationalError", SignupFaultDetail("OperationalError"))
       ELSE IF FindByEmail(users, sreq[p].email) # NoUser
       THEN SignupFail(p, "ValueError", MsgDuplicate)
       ELSE sreq' = [sreq EXCEPT ![p].pc = "hash"]
    /\ UNCHANGED <<host, now, users, loginResp, gate, logoutResp, taskVars, verifyResp, treq, console>>

\* AuthService.signup: bcrypt.hashpw(password, bcrypt.gensalt())
SignupHash(p) ==
    /\ sreq[p].pc = "hash"
    /\ IF BcryptRaises(host.bcryptStrict, sreq[p].password)
       THEN SignupFail(p, "ValueError", MsgBcryptLong)
       ELSE \E salt \in Salts :
              sreq' = [sreq EXCEPT ![p].pc = "commit",
                         ![p].password_hash = BcryptHashpw(sreq[p].password, salt)]
    /\ UNCHANGED <<host, now, users, loginResp, gate, logoutResp, taskVars, verifyResp, treq, console>>

\* AuthService.signup: User(...), session.add, commit, refresh; the response
SignupCommit(p) ==
    /\ sreq[p].pc = "commit"
    /\ LET user == NewUser(users, sreq[p].email, sreq[p].password_hash,
                           sreq[p].name, now)
       IN IF host.store = "down"
          THEN /\ users' = users
               /\ sreq' = [sreq EXCEPT ![p].pc = "done",
                             ![p].password_hash = NoHash,
                             ![p].status = SignupErrorStatus("OperationalError"),
                             ![p].detail = SignupFaultDetail("OperationalError"),
                             ![p].detail_parameters = StatementParameters(user)]
          ELSE IF EmailUnique(users, user.email)
          THEN /\ users' = users \cup {user}
               /\ sreq' = [sreq EXCEPT ![p].pc = "done", ![p].password_hash = NoHash,
                             ![p].status = 201, ![p].detail = MsgCreated,
                             ![p].user = UserResponse(user)]
          ELSE /\ users' = users
               /\ sreq' = [sreq EXCEPT ![p].pc = "done",
                             ![p].password_hash = NoHash,
                             ![p].status = SignupErrorStatus("IntegrityError"),
                             ![p].detail = MsgSignupFault,
                             ![p].detail_parameters = StatementParameters(user)]
    /\ UNCHANGED <<host, now, loginResp, gate, logoutResp, taskVars, verifyResp, treq, console>>

(***************************************************************************)
(* PyJWT 2.x.  A token is its three segments: the header's alg, the        *)
(* payload and the signature.  An HMAC is modelled by what it binds: the   *)
(* key and the signed header and payload.  Claims are validated in the     *)
(* library's order: iat (not in the future), then exp (exp <= now).        *)
(***************************************************************************)
Secret == host.environ.BETTER_AUTH_SECRET    \* os.getenv("BETTER_AUTH_SECRET")
OtherSecret == "another secret"
\* a decode that is not pinned to one algorithm
AlgorithmsUnpinned == {"HS256", "HS512", "none"}

Algorithms == {"HS256"}            \* algorithms=["HS256"]

Absent == 0                         \* a claim the payload does not carry

NoPayload ==
    [user_id |-> Absent, email |-> None, iat |-> Absent, exp |-> Absent,
     sub |-> Absent]
NoSig == [key |-> None, alg |-> None, payload |-> NoPayload]
NoToken == [segments |-> 0, alg |-> None, payload |-> NoPayload, sig |-> NoSig]

HmacSign(key, alg, payload) == [key |-> key, alg |-> alg, payload |-> payload]

\* jwt.encode(payload, key, algorithm)
JwtEncode(payload, key, alg) ==
    [segments |-> 3, alg |-> alg, payload |-> payload,
     sig |-> HmacSign(key, alg, payload)]

\* a decode that still accepts a token at the second of its exp claim
JwtDecodeErrorLateExpiry(token, key, algorithms, t) ==
    IF token.segments # 3 THEN "DecodeError"
    ELSE IF token.alg \notin algorithms THEN "InvalidAlgorithmError"
    ELSE IF token.sig # HmacSign(key, token.alg, token.payload)
         THEN "InvalidSignatureError"
    ELSE IF token.payload.iat # Absent /\ token.payload.iat > t
         THEN "ImmatureSignatureError"
    ELSE IF token.payload.exp # Absent /\ token.payload.exp < t
         THEN "ExpiredSignatureError"
    ELSE None

\* a decode that does not verify the signature (verify_signature off)
JwtDecodeErrorUnverified(token, key, algorithms, t) ==
    IF token.segments # 3 THEN "DecodeError"
    ELSE IF token.payload.iat # Absent /\ token.payload.iat > t
         THEN "ImmatureSignatureError"
    ELSE IF token.payload.exp # Absent /\ token.payload.exp <= t
         THEN "ExpiredSignatureError"
    ELSE None

\* a decode that validates the exp claim before it verifies the signature
JwtDecodeErrorExpiryFirst(token, key, algorithms, t) ==
    IF token.segments # 3 THEN "DecodeError"
    ELSE IF token.payload.exp # Absent /\ token.payload.exp <= t
         THEN "ExpiredSignatureError"
    ELSE IF token.alg \notin algorithms THEN "InvalidAlgorithmError"
    ELSE IF token.sig # HmacSign(key, token.alg, token.payload)
         THEN "InvalidSignatureError"
    ELSE IF token.payload.iat # Absent /\ token.payload.iat > t
         THEN "ImmatureSignatureError"
    ELSE None

\* a decode that takes a token for expired one second early
JwtDecodeErrorEarlyExpiry(token, key, algorithms, t) ==
    IF token.segments # 3 THEN "DecodeError"
    ELSE IF token.alg \notin algorithms THEN "InvalidAlgorithmError"
    ELSE IF token.sig # HmacSign(key, token.alg, token.payload)
         THEN "InvalidSignatureError"
    ELSE IF token.payload.iat # Absent /\ token.payload.iat > t
         THEN "ImmatureSignatureError"
    ELSE IF token.payload.exp # Absent /\ token.payload.exp <= t + 1
         THEN "ExpiredSignatureError"
    ELSE None

\* jwt.decode(token, key, algorithms): the exception raised, None if none
JwtDecodeError(token, key, algorithms, t) ==
    IF token.segments # 3 THEN "DecodeError"
    ELSE IF token.alg \notin algorithms THEN "InvalidAlgorithmError"
    ELSE IF token.sig # HmacSign(key, token.alg, token.payload)
         THEN "InvalidSignatureError"
    ELSE IF token.payload.iat # Absent /\ token.payload.iat > t
         THEN "ImmatureSignatureError"
    ELSE IF token.payload.exp # Absent /\ token.payload.exp <= t
         THEN "ExpiredSignatureError"
    ELSE None

\* AuthService._generate_jwt_token(user) at instant t on a host in zone
GenerateJwtToken(user, zone, t) ==
    LET issued_at == UtcNow(t)
        expires_at == PlusDays(issued_at, TokenTtlDays)
        payload == [user_id |-> user.id, email |-> user.email,
                    iat |-> NaiveTimestamp(zone, issued_at),
                    exp |-> NaiveTimestamp(zone, expires_at),
                    sub |-> user.id]
    IN [token |-> JwtEncode(payload, Secret, "HS256"), expires_at |-> expires_at]

(***************************************************************************)
(* Login: POST /api/auth/login.  loginResp is the response of the latest   *)
(* login, which the client keeps, and the instant it was produced.         *)
(***************************************************************************)
MsgInvalidCredentials == "Invalid email or password"

\* no cookie set
NoCookie ==
    [key |-> None, value |-> NoToken, httponly |-> FALSE, secure |-> FALSE,
     samesite |-> None, max_age |-> 0 - 1]

NoLogin ==
    [email |-> None, password |-> <<>>, status |-> 0, detail |-> None,
     user |-> NoUserResponse, token |-> NoToken, expires_at |-> 0, at |-> 0,
     cookie |-> NoCookie]
NoGate ==
    [method |-> None, path |-> None, header |-> <<>>, outcome |-> None,
     status |-> 0, detail |-> None, user_id |-> Absent, email |-> None]

\* no logout answered yet; no task, and no task request answered yet
NoLogout == [header |-> <<>>, status |-> 0, message |-> None, max_age |-> 0 - 1]
NoTask ==
    [id |-> 0, user_id |-> 0, title |-> None, description |-> None,
     completed |-> FALSE, created_at |-> 0, updated_at |-> 0]
NoTaskBody == [title |-> None, description |-> None]

\* no verify answered yet; expires_at "" is the instant 0
NoVerify ==
    [header |-> <<>>, status |-> 0, detail |-> None, valid |-> FALSE,
     user |-> NoUserResponse, expires_at |-> 0]

\* request.state before the gatekeeper has set anything, and a task request
\* that has not arrived
NoRequestState == [user_id |-> Absent, email |-> None]
IdleFlight ==
    [pc |-> "idle", user_id |-> 0, header |-> <<>>, state |-> NoRequestState,
     authenticated_user_id |-> Absent, status |-> 0, detail |-> None,
     tasks |-> {}]
NoTaskResp ==
    [endpoint |-> None, user_id |-> 0, task_id |-> 0, body |-> NoTaskBody,
     status |-> 0, detail |-> None, tasks |-> {}]

\* a login in which the hasher's failure on the stored digest is an
\* exception of its own kind
LoginErrorHasherFault(rows, email, password, strict) ==
    LET user == FindByEmail(rows, email)
    IN IF user = NoUser THEN "ValueError"
       ELSE IF BcryptRaises(strict, password) THEN "ValueError"
       ELSE IF BcryptInvalidSalt(user.password_hash) THEN "HasherError"
       ELSE IF ~BcryptCheckpw(password, user.password_hash) THEN "ValueError"
       ELSE None

\* AuthService.login: the exception it raises, None if it returns
LoginError(rows, email, password, strict) ==
    LET user == FindByEmail(rows, email)
    IN IF user = NoUser THEN "ValueError"
       ELSE IF BcryptRaises(strict, password) THEN "ValueError"
       ELSE IF BcryptInvalidSalt(user.password_hash) THEN "ValueError"
       ELSE IF ~BcryptCheckpw(password, user.password_hash) THEN "ValueError"
       ELSE None

\* the route's mapping of an exception raised by AuthService.login
LoginErrorResponse(exc) ==
    IF exc = "ValueError"
    THEN [status |-> 401, detail |-> MsgInvalidCredentials]
    ELSE [status |-> 500,
          detail |-> "An error occurred during login: " \o ExceptionText(exc)]

\* max_age=60 * 60 * 24 * 7
CookieMaxAge == 60 * 60 * 24 * 7

\* a cookie that is Secure and strict wherever NODE_ENV is not "development"
SessionCookieSecureUnlessDevelopment(token, node_env) ==
    [key |-> "auth_token", value |-> token, httponly |-> TRUE,
     secure |-> node_env # "development",
     samesite |-> IF node_env = "development" THEN "lax" ELSE "strict",
     max_age |-> CookieMaxAge]

\* response.set_cookie(key="auth_token", ...) of the login route
SessionCookie(token, node_env) ==
    LET is_production == node_env = "production"
    IN [key |-> "auth_token", value |-> token, httponly |-> TRUE,
        secure |-> is_production,
        samesite |-> IF ~is_production THEN "lax" ELSE "strict",
        max_age |-> CookieMaxAge]

Login ==
    /\ \E body \in LoginBodies :
         LET e == body.email
             pw == body.password
             exc == IF host.store = "down" THEN "OperationalError"
                    ELSE LoginError(users, e, pw, host.bcryptStrict)
             user == FindByEmail(users, e)
             issued == GenerateJwtToken(user, host.zone, now)
         IN loginResp' =
              IF exc # None
              THEN [NoLogin EXCEPT !.email = e, !.password = pw, !.at = now,
                                   !.status = LoginErrorResponse(exc).status,
                                   !.detail = LoginErrorResponse(exc).detail]
              ELSE [NoLogin EXCEPT !.email = e, !.password = pw, !.at = now,
                                   !.status = 200, !.user = UserResponse(user),
                                   !.token = issued.token,
                                   !.expires_at = issued.expires_at,
                                   !.cookie = SessionCookie(issued.token,
                                                            host.environ.NODE_ENV)]
    /\ gate' = NoGate
    /\ logoutResp' = NoLogout
    /\ taskResp' = NoTaskResp
    /\ verifyResp' = NoVerify
    /\ UNCHANGED <<host, now, users, sreq, tasks, task_id_seq, treq, console>>

(***************************************************************************)
(* The gatekeeper: JWTMiddleware.dispatch.  An Authorization header is     *)
(* the sequence of its parts between single spaces; gate is the outcome    *)
(* of the latest request, with the identity put into request.state.        *)
(***************************************************************************)
MsgAuthRequired == "Authentication required"
MsgBadFormat == "Invalid authentication token format. Expected 'Bearer <token>'"
MsgExpired == "Token expired. Please log in again"
MsgInvalidToken == "Invalid authentication token"
MsgAuthFailed == "Authentication failed"

\* a gatekeeper that lets no auth endpoint through unauthenticated
NoPublicAuthPaths == {}

PublicAuthPaths == {"/api/auth/signup", "/api/auth/login"}
OpenPaths == {"/", "/health", "/docs", "/redoc", "/openapi.json", "/favicon.ico"}

Garbage == [NoToken EXCEPT !.segments = 1]

\* tokens an attacker derives from one issued token
Forgeries(token, otherId) ==
    LET moved == [token.payload EXCEPT !.user_id = otherId, !.sub = otherId]
        longer == [token.payload EXCEPT
                     !.exp = @ + TokenTtlDays * SecondsPerDay]
    IN { JwtEncode(token.payload, OtherSecret, "HS256"),
         JwtEncode(moved, OtherSecret, "HS256"),
         [token EXCEPT !.payload = moved],
         [token EXCEPT !.payload = longer],
         [token EXCEPT !.alg = "none", !.sig = NoSig, !.payload = moved] }

\* tokens another holder of the secret (the Better Auth frontend, which
\* shares BETTER_AUTH_SECRET) can mint from the claims of an issued one:
\* without sub, without user_id, without either, and signed with HS512
IssuerTokens(token) ==
    LET p == token.payload
    IN { JwtEncode([p EXCEPT !.sub = Absent], Secret, "HS256"),
         JwtEncode([p EXCEPT !.user_id = Absent], Secret, "HS256"),
         JwtEncode([p EXCEPT !.user_id = Absent, !.sub = Absent], Secret, "HS256"),
         JwtEncode(p, Secret, "HS512") }

\* what a client may put after "Bearer": the token of its latest login, a
\* token derived from it (forged, or minted by another holder of the
\* secret), or bytes that are no token at all
BearerTokens ==
    {Garbage} \cup
    (IF loginResp.status = 200
     THEN {loginResp.token} \cup IssuerTokens(loginResp.token) \cup
          UNION { Forgeries(loginResp.token, u.id) : u \in users }
     ELSE {})

Headers ==
    {<<>>, <<"Basic", "dXNlcjpwdw==">>, <<"Bearer">>}
      \cup { <<"Bearer", t>> : t \in BearerTokens }

Requests ==
    { [method |-> "OPTIONS", path |-> "/api/auth/verify"],
      [method |-> "POST", path |-> "/api/auth/login"],
      [method |-> "POST", path |-> "/api/auth/signup"],
      [method |-> "GET", path |-> "/health"],
      [method |-> "GET", path |-> "/api/auth/verify"] }

\* auth_header.startswith("Bearer ")
StartsWithBearer(header) == Len(header) >= 2 /\ header[1] = "Bearer"

\* the middleware's handling of what jwt.decode raised
DecodeErrorDetail(exc) ==
    IF exc = "ExpiredSignatureError" THEN MsgExpired ELSE MsgInvalidToken

\* a dispatch that lets a request without credentials through as anonymous
DispatchAnonymous(req, header, t) ==
    LET pass == [NoGate EXCEPT !.method = req.method, !.path = req.path,
                               !.header = header, !.outcome = "call_next",
                               !.status = 200]
        reject(msg) == [pass EXCEPT !.outcome = "HTTPException",
                                    !.status = 401, !.detail = msg]
        token == header[2]
        exc == JwtDecodeError(token, Secret, Algorithms, t)
        user_id == IF token.payload.user_id # Absent
                   THEN token.payload.user_id ELSE token.payload.sub
    IN IF req.method = "OPTIONS" THEN pass
       ELSE IF req.path \in PublicAuthPaths THEN pass
       ELSE IF req.path \in OpenPaths THEN pass
       ELSE IF header = <<>> THEN pass
       ELSE IF ~StartsWithBearer(header) THEN reject(MsgBadFormat)
       ELSE IF exc # None THEN reject(DecodeErrorDetail(exc))
       ELSE IF user_id = Absent THEN reject(MsgAuthFailed)
       ELSE [pass EXCEPT !.user_id = user_id, !.email = token.payload.email]

\* a dispatch that attaches whatever identifier the claims give, even none
DispatchNoIdentifierCheck(req, header, t) ==
    LET pass == [NoGate EXCEPT !.method = req.method, !.path = req.path,
                               !.header = header, !.outcome = "call_next",
                               !.status = 200]
        reject(msg) == [pass EXCEPT !.outcome = "HTTPException",
                                    !.status = 401, !.detail = msg]
        token == header[2]
        exc == JwtDecodeError(token, Secret, Algorithms, t)
        user_id == IF token.payload.user_id # Absent
                   THEN token.payload.user_id ELSE token.payload.sub
    IN IF req.method = "OPTIONS" THEN pass
       ELSE IF req.path \in PublicAuthPaths THEN pass
       ELSE IF req.path \in OpenPaths THEN pass
       ELSE IF header = <<>> THEN reject(MsgAuthRequired)
       ELSE IF ~StartsWithBearer(header) THEN reject(MsgBadFormat)
       ELSE IF exc # None THEN reject(DecodeErrorDetail(exc))
       ELSE [pass EXCEPT !.user_id = user_id, !.email = token.payload.email]

\* dispatch: the verdict on one request at instant t
Dispatch(req, header, t) ==
    LET pass == [NoGate EXCEPT !.method = req.method, !.path = req.path,
                               !.header = header, !.outcome = "call_next",
                               !.status = 200]
        reject(msg) == [pass EXCEPT !.outcome = "HTTPException",
                                    !.status = 401, !.detail = msg]
        token == header[2]
        exc == JwtDecodeError(token, Secret, Algorithms, t)
        user_id == IF token.payload.user_id # Absent
                   THEN token.payload.user_id ELSE token.payload.sub
    IN IF req.method = "OPTIONS" THEN pass
       ELSE IF req.path \in PublicAuthPaths THEN pass
       ELSE IF req.path \in OpenPaths THEN pass
       ELSE IF header = <<>> THEN reject(MsgAuthRequired)
       ELSE IF ~StartsWithBearer(header) THEN reject(MsgBadFormat)
       ELSE IF exc # None THEN reject(DecodeErrorDetail(exc))
       ELSE IF user_id = Absent THEN reject(MsgAuthFailed)
       ELSE [pass EXCEPT !.user_id = user_id, !.email = token.payload.email]

\* What the client receives for a verdict of the gatekeeper.  JWTMiddleware
\* is a BaseHTTPMiddleware added with app.add_middleware: it runs outside
\* the application's exception handling, so an HTTPException raised in
\* dispatch is handled by nothing that knows its status_code and detail:
\* the server's error handler answers 500 "Internal Server Error".
MsgServerError == "Internal Server Error"

GateClientResponse(g) ==
    IF g.outcome = "HTTPException"
    THEN [status |-> 500, detail |-> MsgServerError]
    ELSE [status |-> g.status, detail |-> g.detail]

GateRequest ==
    /\ \E req \in Requests, header \in Headers :
         gate' = Dispatch(req, header, now)
    /\ UNCHANGED <<host, now, users, sreq, loginResp, logoutResp, taskVars, verifyResp, treq, console>>

(***************************************************************************)
(* Logout: POST /api/auth/logout, a protected path.  logoutResp is the     *)
(* response of the latest logout since the latest login, with the header   *)
(* the request carried.                                                    *)
(***************************************************************************)
MsgLoggedOut == "Logged out successfully"

LogoutHeaders ==
    {<<>>} \cup (IF loginResp.status = 200
                 THEN {<<"Bearer", loginResp.token>>} ELSE {})

\* the handler: set_cookie("auth_token", "", max_age=0) and the message
LogoutResponse(header) ==
    [header |-> header, status |-> 200, message |-> MsgLoggedOut, max_age |-> 0]

Logout ==
    /\ \E header \in LogoutHeaders :
         LET g == Dispatch([method |-> "POST", path |-> "/api/auth/logout"],
                           header, now)
         IN /\ gate' = g
            /\ logoutResp' =
                 IF g.outcome = "HTTPException"
                 THEN [NoLogout EXCEPT !.header = header,
                                       !.status = GateClientResponse(g).status,
                                       !.message = GateClientResponse(g).detail]
                 ELSE LogoutResponse(header)
    /\ UNCHANGED <<host, now, users, sreq, loginResp, taskVars, verifyResp, treq, console>>

(***************************************************************************)
(* The task endpoints: routes/tasks.py.  A row of the tasks table is       *)
(*   [id, user_id, title, description, completed, created_at, updated_at]. *)
(* A request passes the gatekeeper, then the validation of its body, then  *)
(* the handler.  taskResp is the response of the latest task request:      *)
(* the endpoint, the user_id and task_id of its path, its body, and the    *)
(* rows the response carries.                                              *)
(***************************************************************************)
MsgAccessDenied == "Access denied. You can only access your own tasks."
MsgTaskNotFound == "Task not found"

\* the user ids a path may name, and the path of a task collection
PathUserIds == {u.id : u \in users}
TaskIds == 1..MaxTaskId
TasksPath(user_id) == "/api/" \o ToString(user_id) \o "/tasks"
TaskPath(user_id, task_id) == TasksPath(user_id) \o "/" \o ToString(task_id)

\* request bodies: TaskCreate and TaskUpdate, the last of each not valid
TaskCreateBodies ==
    { [title |-> "buy milk", description |-> None],
      [title |-> "", description |-> None] }
TaskUpdateBodies ==
    { [title |-> "call Bob", description |-> " today"],
      [title |-> None, description |-> ""],
      [title |-> "", description |-> None] }

\* str.strip() for blanks
RECURSIVE Strip(_)
Strip(str) ==
    IF Len(str) > 0 /\ SubSeq(str, 1, 1) = " "
    THEN Strip(SubSeq(str, 2, Len(str)))
    ELSE IF Len(str) > 0 /\ SubSeq(str, Len(str), Len(str)) = " "
    THEN Strip(SubSeq(str, 1, Len(str) - 1))
    ELSE str

\* Field(min_length=1) and the validator: a title that is given is neither
\* empty nor blank
TitleValid(title) == Strip(title) # ""

\* the title validators: v.strip() (title_valid_if_present: if v else v)
TitleClean(v) == IF v = None THEN None ELSE Strip(v)

\* a validator that keeps an empty description as the empty string
DescriptionCleanKeepEmpty(v) == IF v = None THEN None ELSE Strip(v)

\* description_clean: v.strip() if v else None
DescriptionClean(v) == IF v = None \/ v = "" THEN None ELSE Strip(v)

\* the credentials of a task request: none, the token of the latest login,
\* or that token with its payload altered to name another user
TaskHeaders ==
    {<<>>} \cup
    (IF loginResp.status = 200
     THEN {<<"Bearer", loginResp.token>>} \cup
          { <<"Bearer", [loginResp.token EXCEPT !.payload.user_id = u.id,
                                                !.payload.sub = u.id]>> :
              u \in users }
     ELSE {})

\* a check that lets every authenticated user through
ValidateUserAccessAlways(authenticated_user_id, user_id) == TRUE

\* validate_user_access: TRUE when it returns, FALSE when it raises 403
ValidateUserAccess(authenticated_user_id, user_id) ==
    authenticated_user_id = user_id

\* a lookup by id alone
FindTaskAnyOwner(rows, task_id, user_id) ==
    IF \E t \in rows : t.id = task_id
    THEN CHOOSE t \in rows : t.id = task_id
    ELSE NoTask

\* select(Task).where(Task.id == task_id, Task.user_id == user_id).first()
FindTask(rows, task_id, user_id) ==
    IF \E t \in rows : t.id = task_id /\ t.user_id = user_id
    THEN CHOOSE t \in rows : t.id = task_id /\ t.user_id = user_id
    ELSE NoTask

\* select(Task).where(Task.user_id == user_id)
TasksOf(rows, user_id) == {t \in rows : t.user_id = user_id}

\* the request as taskResp records it, and its answers that carry no row
TaskRequest(endpoint, user_id, task_id, body) ==
    [NoTaskResp EXCEPT !.endpoint = endpoint, !.user_id = user_id,
                       !.task_id = task_id, !.body = body]
TaskError(request, status, detail) ==
    [request EXCEPT !.status = status, !.detail = detail]

\* One request: the gatekeeper's verdict g, then validation, then the
\* handler, which leaves the table as rows and the sequence as seq.
TaskAnswer(g, request, valid, resp, rows, seq) ==
    /\ gate' = g
    /\ IF g.outcome = "HTTPException"
       THEN /\ taskResp' = TaskError(request, GateClientResponse(g).status,
                                     GateClientResponse(g).detail)
            /\ UNCHANGED <<tasks, task_id_seq>>
       ELSE IF ~valid
       THEN /\ taskResp' = TaskError(request, 422, MsgValidation)
            /\ UNCHANGED <<tasks, task_id_seq>>
       ELSE IF ~ValidateUserAccess(g.user_id, request.user_id)
       THEN /\ taskResp' = TaskError(request, 403, MsgAccessDenied)
            /\ UNCHANGED <<tasks, task_id_seq>>
       ELSE /\ taskResp' = resp
            /\ tasks' = rows
            /\ task_id_seq' = seq
    /\ UNCHANGED <<host, now, users, sreq, loginResp, logoutResp, verifyResp, treq, console>>

\* POST /api/{user_id}/tasks
CreateTask ==
    /\ task_id_seq < MaxTaskId
    /\ \E header \in TaskHeaders, user_id \in PathUserIds,
          body \in TaskCreateBodies :
         LET request == TaskRequest("create_task", user_id, 0, body)
             new_task == [id |-> task_id_seq + 1, user_id |-> user_id,
                          title |-> TitleClean(body.title),
                          description |-> DescriptionClean(body.description),
                          completed |-> FALSE,
                          created_at |-> UtcNow(now), updated_at |-> UtcNow(now)]
         IN TaskAnswer(Dispatch([method |-> "POST", path |-> TasksPath(user_id)],
                                header, now),
                       request, TitleValid(body.title),
                       [request EXCEPT !.status = 201, !.tasks = {new_task}],
                       tasks \cup {new_task}, task_id_seq + 1)

\* GET /api/{user_id}/tasks
ListTasks ==
    \E header \in TaskHeaders, user_id \in PathUserIds :
        LET request == TaskRequest("list_tasks", user_id, 0, NoTaskBody)
        IN TaskAnswer(Dispatch([method |-> "GET", path |-> TasksPath(user_id)],
                               header, now),
                      request, TRUE,
                      [request EXCEPT !.status = 200,
                                      !.tasks = TasksOf(tasks, user_id)],
                      tasks, task_id_seq)

\* GET /api/{user_id}/tasks/{task_id}
GetTask ==
    \E header \in TaskHeaders, user_id \in PathUserIds, task_id \in TaskIds :
        LET request == TaskRequest("get_task", user_id, task_id, NoTaskBody)
            task == FindTask(tasks, task_id, user_id)
        IN TaskAnswer(Dispatch([method |-> "GET",
                                path |-> TaskPath(user_id, task_id)],
                               header, now),
                      request, TRUE,
                      IF task = NoTask
                      THEN TaskError(request, 404, MsgTaskNotFound)
                      ELSE [request EXCEPT !.status = 200, !.tasks = {task}],
                      tasks, task_id_seq)

\* PUT /api/{user_id}/tasks/{task_id}
UpdateTask ==
    \E header \in TaskHeaders, user_id \in PathUserIds, task_id \in TaskIds,
       body \in TaskUpdateBodies :
        LET request == TaskRequest("update_task", user_id, task_id, body)
            task == FindTask(tasks, task_id, user_id)
            task_data == [title |-> TitleClean(body.title),
                          description |-> DescriptionClean(body.description)]
            updated == [task EXCEPT
                          !.title = IF task_data.title # None
                                    THEN task_data.title ELSE @,
                          !.description = IF task_data.description # None
                                          THEN task_data.description ELSE @,
                          !.updated_at = UtcNow(now)]
        IN TaskAnswer(Dispatch([method |-> "PUT",
                                path |-> TaskPath(user_id, task_id)],
                               header, now),
                      request, body.title = None \/ TitleValid(body.title),
                      IF task = NoTask
                      THEN TaskError(request, 404, MsgTaskNotFound)
                      ELSE [request EXCEPT !.status = 200, !.tasks = {updated}],
                      IF task = NoTask THEN tasks
                      ELSE (tasks \ {task}) \cup {updated},
                      task_id_seq)

\* a delete that is never committed
SessionDeleteNoCommit(rows, task) == rows

\* session.delete(task); session.commit()
SessionDelete(rows, task) == rows \ {task}

\* DELETE /api/{user_id}/tasks/{task_id}
DeleteTask ==
    \E header \in TaskHeaders, user_id \in PathUserIds, task_id \in TaskIds :
        LET request == TaskRequest("delete_task", user_id, task_id, NoTaskBody)
            task == FindTask(tasks, task_id, user_id)
        IN TaskAnswer(Dispatch([method |-> "DELETE",
                                path |-> TaskPath(user_id, task_id)],
                               header, now),
                      request, TRUE,
                      IF task = NoTask
                      THEN TaskError(request, 404, MsgTaskNotFound)
                      ELSE [request EXCEPT !.status = 204],
                      IF task = NoTask THEN tasks
                      ELSE SessionDelete(tasks, task),
                      task_id_seq)

\* a toggle that marks the task done whatever it was
ToggleCompletedMarkDone(completed) == TRUE

\* task.completed = not task.completed
ToggleCompleted(completed) == ~completed

\* PATCH /api/{user_id}/tasks/{task_id}/complete
ToggleTaskComplete ==
    \E header \in TaskHeaders, user_id \in PathUserIds, task_id \in TaskIds :
        LET request == TaskRequest("toggle_task_complete", user_id, task_id,
                                   NoTaskBody)
            task == FindTask(tasks, task_id, user_id)
            toggled == [task EXCEPT !.completed = ToggleCompleted(@),
                                    !.updated_at = UtcNow(now)]
        IN TaskAnswer(Dispatch([method |-> "PATCH",
                                path |-> TaskPath(user_id, task_id) \o "/complete"],
                               header, now),
                      request, TRUE,
                      IF task = NoTask
                      THEN TaskError(request, 404, MsgTaskNotFound)
                      ELSE [request EXCEPT !.status = 200, !.tasks = {toggled}],
                      IF task = NoTask THEN tasks
                      ELSE (tasks \ {task}) \cup {toggled},
                      task_id_seq)

(***************************************************************************)
(* request.state: the attributes the gatekeeper sets on the request it     *)
(* lets through, and getattr(request.state, name, default).                *)
(***************************************************************************)
RequestState(g) == [user_id |-> g.user_id, email |-> g.email]

GetAttr(state, name, default) ==
    IF name \in DOMAIN state THEN state[name] ELSE default

(***************************************************************************)
(* Verify: GET /api/auth/verify, a protected path.  verifyResp is the      *)
(* response of the latest verify since the latest login.                   *)
(***************************************************************************)
MsgUserNotFound == "User not found"

VerifyHeaders ==
    {<<>>} \cup (IF loginResp.status = 200
                 THEN {<<"Bearer", loginResp.token>>} ELSE {})

\* the handler, given the request.state the gatekeeper left
VerifyResponse(header, state) ==
    LET user_id == GetAttr(state, "user_id", Absent)
        user == FindById(users, user_id)
        expires_at == GetAttr(state, "token_expires_at", Absent)
    IN IF user_id = Absent
       THEN [NoVerify EXCEPT !.header = header, !.status = 401,
                             !.detail = MsgAuthRequired]
       ELSE IF user = NoUser
       THEN [NoVerify EXCEPT !.header = header, !.status = 401,
                             !.detail = MsgUserNotFound]
       ELSE [NoVerify EXCEPT !.header = header, !.status = 200,
                             !.valid = TRUE, !.user = UserResponse(user),
                             !.expires_at = IF expires_at # Absent
                                            THEN expires_at ELSE 0]

Verify ==
    /\ \E header \in VerifyHeaders :
         LET g == Dispatch([method |-> "GET", path |-> "/api/auth/verify"],
                           header, now)
         IN /\ gate' = g
            /\ verifyResp' =
                 IF g.outcome = "HTTPException"
                 THEN [NoVerify EXCEPT !.header = header,
                                       !.status = GateClientResponse(g).status,
                                       !.detail = GateClientResponse(g).detail]
                 ELSE VerifyResponse(header, RequestState(g))
    /\ UNCHANGED <<host, now, users, sreq, loginResp, logoutResp, taskVars, treq, console>>

(***************************************************************************)
(* Requests in flight together: GET /api/{user_id}/tasks handled in two    *)
(* steps, the gatekeeper and then the handler, so that the steps of        *)
(* several requests interleave.  treq[r] is request r: its path, its       *)
(* header, its request.state, and its response once done.                  *)
(***************************************************************************)
\* the tokens of the logins both users made at T0
IssuedTokens == {GenerateJwtToken(u, host.zone, T0).token : u \in users}

\* no header, an issued token, or one altered to name another user
FlightHeaders ==
    {<<>>} \cup { <<"Bearer", t>> : t \in IssuedTokens } \cup
    { <<"Bearer", [t EXCEPT !.payload.user_id = u.id, !.payload.sub = u.id]>> :
        t \in IssuedTokens, u \in users }

\* one state object shared by all requests
StateOfShared(r) == 1

\* the request whose scope holds the state object that request r reads and
\* writes as request.state: its own
StateOf(r) == r

\* the gatekeeper's step of request r
FlightDispatch(r) ==
    /\ treq[r].pc = "idle"
    /\ \E header \in FlightHeaders, user_id \in PathUserIds :
         LET g == Dispatch([method |-> "GET", path |-> TasksPath(user_id)],
                           header, now)
             arrived == [treq EXCEPT ![r].user_id = user_id,
                                     ![r].header = header]
         IN treq' =
              IF g.outcome = "HTTPException"
              THEN [arrived EXCEPT ![r].pc = "done",
                                   ![r].status = GateClientResponse(g).status,
                                   ![r].detail = GateClientResponse(g).detail]
              ELSE [arrived EXCEPT ![r].pc = "handler",
                                   ![StateOf(r)].state = RequestState(g)]
    /\ UNCHANGED <<host, now, users, sreq, loginResp, gate, logoutResp,
                   taskVars, verifyResp, console>>

\* list_tasks for request r: validate_user_access, then the query
FlightHandle(r) ==
    /\ treq[r].pc = "handler"
    /\ LET authenticated_user_id == treq[StateOf(r)].state.user_id
           seen == [treq EXCEPT ![r].pc = "done",
                     ![r].authenticated_user_id = authenticated_user_id]
       IN treq' =
            IF ~ValidateUserAccess(authenticated_user_id, treq[r].user_id)
            THEN [seen EXCEPT ![r].status = 403, ![r].detail = MsgAccessDenied]
            ELSE [seen EXCEPT ![r].status = 200,
                              ![r].tasks = TasksOf(tasks, treq[r].user_id)]
    /\ UNCHANGED <<host, now, users, sreq, loginResp, gate, logoutResp,
                   taskVars, verifyResp, console>>

\* the response of request r is sent; the next request may arrive
FlightEnd(r) ==
    /\ treq[r].pc = "done"
    /\ treq' = [treq EXCEPT ![r] = IdleFlight]
    /\ UNCHANGED <<host, now, users, sreq, loginResp, gate, logoutResp,
                   taskVars, verifyResp, console>>

(***************************************************************************)
(* The operational log: logging.basicConfig(level=logging.INFO) and the    *)
(* engine created with echo=True, which makes sqlalchemy.engine log every  *)
(* statement with its bound values at INFO.  A record is determined by     *)
(* the request it was written for, so the log is derived from the records  *)
(* the model keeps of the requests: sreq, loginResp and gate.               *)
(***************************************************************************)
LogRecord(logger, level, message) ==
    [logger |-> logger, level |-> level, message |-> message,
     parameters |-> NoUser, password |-> <<>>, token |-> NoToken]

\* the records of one statement: its text and its bound values
EngineLog(statement, parameters) ==
    [LogRecord("sqlalchemy.engine.Engine", "INFO", statement)
       EXCEPT !.parameters = parameters]

SelectByEmail(email) ==
    EngineLog("SELECT ... FROM users WHERE users.email = %(email_1)s",
              [NoUser EXCEPT !.email = email])

\* an engine that keeps the bound values out of its records
InsertUserNoValues(row) ==
    EngineLog("INSERT INTO users (id, email, password_hash, name, created_at, updated_at) VALUES (...)",
              NoUser)

InsertUser(row) ==
    EngineLog("INSERT INTO users (id, email, password_hash, name, created_at, updated_at) VALUES (...)",
              row)

\* the statements of signup p that have reached the database
SignupLog(p) ==
    LET r == sreq[p]
        looked_up == r.pc \in {"hash", "commit"} \/ (r.pc = "done" /\ r.status # 422)
    IN (IF looked_up THEN {SelectByEmail(r.email)} ELSE {}) \cup
       (IF r.pc = "done" /\ r.status = 201
        THEN {InsertUser(FindById(users, r.user.id))} ELSE {}) \cup
       (IF r.pc = "done" /\ r.detail_parameters # NoUser
        THEN {InsertUser(r.detail_parameters)} ELSE {})

\* the statement of the latest login
LoginLog ==
    IF loginResp.status = 0 THEN {} ELSE {SelectByEmail(loginResp.email)}

\* the records JWTMiddleware.dispatch wrote for the latest request
GateLog ==
    IF \/ gate.outcome = None
       \/ gate.method = "OPTIONS"
       \/ gate.path \in (PublicAuthPaths \cup OpenPaths)
    THEN {}
    ELSE IF gate.outcome = "call_next"
    THEN {LogRecord("src.middleware.jwt_middleware", "INFO",
                    "Authenticated request from user " \o ToString(gate.user_id)
                       \o " to " \o gate.path)}
    ELSE IF gate.detail = MsgAuthRequired
    THEN {LogRecord("src.middleware.jwt_middleware", "WARNING",
                    "Missing Authorization header for " \o gate.path)}
    ELSE IF gate.detail = MsgBadFormat
    THEN {LogRecord("src.middleware.jwt_middleware", "WARNING",
                    "Invalid Authorization header format for " \o gate.path)}
    ELSE IF gate.detail = MsgExpired
    THEN {LogRecord("src.middleware.jwt_middleware", "WARNING",
                    "Expired JWT token for " \o gate.path)}
    ELSE IF gate.detail = MsgInvalidToken
    THEN {LogRecord("src.middleware.jwt_middleware", "WARNING",
                    "Invalid JWT token for " \o gate.path)}
    ELSE {LogRecord("src.middleware.jwt_middleware", "ERROR",
                    "JWT payload missing user_id or sub claim"),
          LogRecord("src.middleware.jwt_middleware", "ERROR",
                    "Unexpected error during JWT verification")}

OperationalLog == UNION {SignupLog(p) : p \in Procs} \cup LoginLog \cup GateLog

(***************************************************************************)
(* The console application (src/phase1-console).  console.objects is the   *)
(* heap of Todo instances its caller has constructed, each reached by a    *)
(* reference; console._todos and console._next_id are the fields of the    *)
(* TodoStorage, _todos mapping an id to the reference of a Todo; and       *)
(* console.result is the outcome of the latest call.                       *)
(***************************************************************************)
Refs == 1..MaxTodos
TodoIds == 1..MaxAdds

\* a title of n characters
RECURSIVE Repeat(_, _)
Repeat(ch, n) == IF n = 0 THEN "" ELSE ch \o Repeat(ch, n - 1)
LongestTitle == Repeat("x", MaxTitleLen)
TooLongTitle == LongestTitle \o "x"

MsgTitleEmpty == "Title cannot be empty"
MsgTitleTooLong == "Title cannot exceed 100 characters"

\* a check of the title that leaves its length alone
TitleErrorNoLengthCheck(title) ==
    IF title = "" \/ Len(Strip(title)) = 0 THEN MsgTitleEmpty ELSE None

\* the check of a title in Todo.__init__ and in TodoStorage.update: the
\* message of the ValueError it raises, None when it raises nothing
TitleError(title) ==
    IF title = "" \/ Len(Strip(title)) = 0 THEN MsgTitleEmpty
    ELSE IF Len(title) > MaxTitleLen THEN MsgTitleTooLong
    ELSE None

\* a reference that points at no Todo yet, and an optional bool: <<>> is
\* None, <<b>> the value b
NoTodo ==
    [id |-> 0, title |-> None, description |-> None, completed |-> FALSE,
     created_at |-> 0]
NoArgs == [title |-> None, description |-> None, completed |-> <<>>]
NoResult ==
    [op |-> None, id |-> 0, args |-> NoArgs, returned |-> None,
     raised |-> None]

\* TodoStorage.__init__, before the caller has constructed any Todo
NewConsole ==
    [objects |-> [r \in Refs |-> NoTodo], _todos |-> <<>>, _next_id |-> 1,
     result |-> NoResult]

\* the titles and descriptions the caller constructs a Todo with, and the
\* arguments it calls update with
TodoArgs ==
    { [title |-> "buy milk", description |-> "", completed |-> <<>>],
      [title |-> "", description |-> "", completed |-> <<>>],
      [title |-> " ", description |-> "2 l", completed |-> <<>>],
      [title |-> TooLongTitle, description |-> "", completed |-> <<>>] }
UpdateArgs ==
    { [title |-> None, description |-> None, completed |-> <<TRUE>>],
      [title |-> LongestTitle, description |-> None, completed |-> <<>>],
      [title |-> None, description |-> "", completed |-> <<FALSE>>],
      [title |-> None, description |-> "2 l", completed |-> <<>>],
      [title |-> "", description |-> "later", completed |-> <<TRUE>>],
      [title |-> " ", description |-> None, completed |-> <<FALSE>>],
      [title |-> TooLongTitle, description |-> "later", completed |-> <<>>] }

Stored(c) == DOMAIN c._todos
TodoAt(c, id) == c.objects[c._todos[id]]

\* Todo(0, title, description): the instance, or the ValueError
Construct ==
    /\ \E args \in TodoArgs :
         LET error == TitleError(args.title)
             free == {r \in Refs : console.objects[r] = NoTodo}
             ref == CHOOSE r \in free : \A q \in free : r <= q
             call == [NoResult EXCEPT !.op = "Todo", !.args = args]
         IN IF error # None
            THEN console' = [console EXCEPT
                               !.result = [call EXCEPT !.raised = error]]
            ELSE /\ free # {}
                 /\ console' =
                      [console EXCEPT
                         !.objects[ref] =
                             [id |-> 0, title |-> args.title,
                              description |-> args.description,
                              completed |-> FALSE, created_at |-> now],
                         !.result = [call EXCEPT !.returned = "Todo"]]
    /\ UNCHANGED <<host, now, users, sreq, loginResp, gate, logoutResp,
                   taskVars, verifyResp, treq>>

\* TodoStorage.add(todo), todo any instance the caller holds
Add ==
    /\ console._next_id <= MaxAdds
    /\ \E ref \in Refs :
         /\ console.objects[ref] # NoTodo
         /\ LET id == console._next_id
            IN console' =
                 [console EXCEPT
                    !.objects[ref].id = id,
                    !._todos = [k \in Stored(console) \cup {id} |->
                                  IF k = id THEN ref ELSE console._todos[k]],
                    !._next_id = id + 1,
                    !.result = [NoResult EXCEPT !.op = "add", !.id = id,
                                                !.returned = "int"]]
    /\ UNCHANGED <<host, now, users, sreq, loginResp, gate, logoutResp,
                   taskVars, verifyResp, treq>>

\* an update that assigns description and completed before it checks the
\* title
UpdateRunAssignFirst(todo, args) ==
    LET error == IF args.title # None THEN TitleError(args.title) ELSE None
        assigned == [todo EXCEPT
                       !.description = IF args.description # None
                                       THEN args.description ELSE @,
                       !.completed = IF args.completed # <<>>
                                     THEN args.completed[1] ELSE @]
    IN IF error # None
       THEN [todo |-> assigned, returned |-> None, raised |-> error]
       ELSE [todo |-> [assigned EXCEPT !.title = IF args.title # None
                                                  THEN args.title ELSE @],
             returned |-> "True", raised |-> None]

\* the body of update once the todo is found: the todo it leaves, and what
\* it returns or raises
UpdateRun(todo, args) ==
    LET error == IF args.title # None THEN TitleError(args.title) ELSE None
    IN IF error # None
       THEN [todo |-> todo, returned |-> None, raised |-> error]
       ELSE [todo |-> [todo EXCEPT
                         !.title = IF args.title # None
                                   THEN args.title ELSE @,
                         !.description = IF args.description # None
                                         THEN args.description ELSE @,
                         !.completed = IF args.completed # <<>>
                                       THEN args.completed[1] ELSE @],
             returned |-> "True", raised |-> None]

\* TodoStorage.update(id, title, description, completed)
Update ==
    /\ \E id \in TodoIds, args \in UpdateArgs :
         LET call == [NoResult EXCEPT !.op = "update", !.id = id,
                                      !.args = args]
         IN IF id \notin Stored(console)
            THEN console' = [console EXCEPT
                               !.result = [call EXCEPT !.returned = "False"]]
            ELSE LET run == UpdateRun(TodoAt(console, id), args)
                 IN console' =
                      [console EXCEPT
                         !.objects[console._todos[id]] = run.todo,
                         !.result = [call EXCEPT !.returned = run.returned,
                                                 !.raised = run.raised]]
    /\ UNCHANGED <<host, now, users, sreq, loginResp, gate, logoutResp,
                   taskVars, verifyResp, treq>>

\* TodoStorage.delete(id)
Delete ==
    /\ \E id \in TodoIds :
         LET call == [NoResult EXCEPT !.op = "delete", !.id = id]
         IN IF id \in Stored(console)
            THEN console' =
                   [console EXCEPT
                      !._todos = [k \in Stored(console) \ {id} |->
                                    console._todos[k]],
                      !.result = [call EXCEPT !.returned = "True"]]
            ELSE console' = [console EXCEPT
                               !.result = [call EXCEPT !.returned = "False"]]
    /\ UNCHANGED <<host, now, users, sreq, loginResp, gate, logoutResp,
                   taskVars, verifyResp, treq>>

(***************************************************************************)
(* The clock.  While signups are in flight it moves second by second; for  *)
(* tokens it moves through the instants that matter to one issued at the   *)
(* start: for every zone, its last valid second and its expiry second.     *)
(***************************************************************************)
SignupInstants == T0..(T0 + MaxSeconds)

TokenInstants ==
    {T0, T0 + 1} \cup
    UNION { { GenerateJwtToken(NoUser, z, T0).token.payload.exp - 1,
              GenerateJwtToken(NoUser, z, T0).token.payload.exp } : z \in Zones }

Tick(instants) ==
    /\ \E t \in instants : t > now /\ now' = t
    /\ gate' = NoGate
    /\ UNCHANGED <<host, users, sreq, loginResp, logoutResp, taskVars, verifyResp, treq, console>>

(***************************************************************************)
(* Specifications.  Spec: concurrent signups and logins against an empty   *)
(* store on a host in UTC.  SpecToken: logins and protected requests       *)
(* against a store that holds two accounts, on any host.                   *)
(***************************************************************************)
Init ==
    /\ host \in {h \in Hosts : h.zone = ZoneUtc}
    /\ now = T0
    /\ users = {}
    /\ sreq = [p \in Procs |-> IdleReq]
    /\ loginResp = NoLogin
    /\ gate = NoGate
    /\ logoutResp = NoLogout
    /\ tasks = {}
    /\ task_id_seq = 0
    /\ taskResp = NoTaskResp
    /\ verifyResp = NoVerify
    /\ treq = [r \in Procs |-> IdleFlight]
    /\ console = NewConsole

Next ==
    \/ \E p \in Procs : SignupRequest(p)
    \/ \E p \in Procs : SignupLookup(p)
    \/ \E p \in Procs : SignupHash(p)
    \/ \E p \in Procs : SignupCommit(p)
    \/ Login
    \/ Tick(SignupInstants)

Spec == Init /\ [][Next]_vars

\* SpecSignup: the signups alone (a login reads the store and writes nothing)
NextSignup ==
    \/ \E p \in Procs : SignupRequest(p)
    \/ \E p \in Procs : SignupLookup(p)
    \/ \E p \in Procs : SignupHash(p)
    \/ \E p \in Procs : SignupCommit(p)
    \/ Tick(SignupInstants)

SpecSignup == Init /\ [][NextSignup]_vars

\* SpecFault: signups and logins while the database comes and goes
StoreChange ==
    /\ host' = [host EXCEPT !.store = IF @ = "up" THEN "down" ELSE "up"]
    /\ UNCHANGED <<now, users, sreq, loginResp, gate, logoutResp, taskVars, verifyResp, treq, console>>

InitFault == Init /\ ~host.bcryptStrict

NextFault ==
    \/ \E p \in Procs : SignupRequest(p)
    \/ \E p \in Procs : SignupLookup(p)
    \/ \E p \in Procs : SignupHash(p)
    \/ \E p \in Procs : SignupCommit(p)
    \/ Login
    \/ StoreChange

SpecFault == InitFault /\ [][NextFault]_vars

\* the import of main: settings = Settings() raises or the application runs
Startup ==
    /\ host.app = "starting"
    /\ host' = [host EXCEPT !.app = IF SettingsValid(host.environ)
                                    THEN "running" ELSE "failed"]
    /\ UNCHANGED <<now, users, sreq, loginResp, gate, logoutResp, taskVars, verifyResp, treq, console>>

\* the store after signup("a@x.io", PwOk, "Ann") and signup("b@x.io", PwOk)
RegisteredUsers ==
    LET a == NewUser({}, "a@x.io", BcryptHashpw(PwOk, 1), "Ann", T0)
    IN {a, NewUser({a}, "b@x.io", BcryptHashpw(PwOk, 1), None, T0)}

InitToken ==
    /\ host \in Hosts
    /\ now = T0
    /\ users = RegisteredUsers
    /\ sreq = [p \in Procs |-> IdleReq]
    /\ loginResp = NoLogin
    /\ gate = NoGate
    /\ logoutResp = NoLogout
    /\ tasks = {}
    /\ task_id_seq = 0
    /\ taskResp = NoTaskResp
    /\ verifyResp = NoVerify
    /\ treq = [r \in Procs |-> IdleFlight]
    /\ console = NewConsole

NextToken ==
    \/ Login
    \/ GateRequest
    \/ Tick(TokenInstants)

SpecToken == InitToken /\ [][NextToken]_vars

\* SpecDigest: logins against a store in which the digest of the second
\* account is malformed
CorruptedUsers ==
    {IF u.email = "b@x.io" THEN [u EXCEPT !.password_hash = MalformedHash] ELSE u :
       u \in RegisteredUsers}

InitDigest ==
    /\ host \in Hosts
    /\ now = T0
    /\ users = CorruptedUsers
    /\ sreq = [p \in Procs |-> IdleReq]
    /\ loginResp = NoLogin
    /\ gate = NoGate
    /\ logoutResp = NoLogout
    /\ tasks = {}
    /\ task_id_seq = 0
    /\ taskResp = NoTaskResp
    /\ verifyResp = NoVerify
    /\ treq = [r \in Procs |-> IdleFlight]
    /\ console = NewConsole

NextDigest ==
    \/ Login
    \/ Tick(TokenInstants)

SpecDigest == InitDigest /\ [][NextDigest]_vars

\* SpecEnviron: the process from its start, in any environment; requests
\* are served once the application runs
InitEnviron ==
    /\ host \in StartingHosts
    /\ now = T0
    /\ users = RegisteredUsers
    /\ sreq = [p \in Procs |-> IdleReq]
    /\ loginResp = NoLogin
    /\ gate = NoGate
    /\ logoutResp = NoLogout
    /\ tasks = {}
    /\ task_id_seq = 0
    /\ taskResp = NoTaskResp
    /\ verifyResp = NoVerify
    /\ treq = [r \in Procs |-> IdleFlight]
    /\ console = NewConsole

NextEnviron ==
    \/ Startup
    \/ (Running /\ Login)
    \/ (Running /\ GateRequest)
    \/ Tick(TokenInstants)

SpecEnviron == InitEnviron /\ [][NextEnviron]_vars

\* SpecLogout: SpecToken with logouts, on the hosts of one bcrypt release
\* (the release decides nothing once the store is filled)
InitLogout == InitToken /\ ~host.bcryptStrict

NextLogout ==
    \/ Login
    \/ Logout
    \/ GateRequest
    \/ Tick(TokenInstants)

SpecLogout == InitLogout /\ [][NextLogout]_vars

\* SpecTasks: logins and task requests of the two accounts, on a host in UTC
InitTasks ==
    /\ host \in {h \in Hosts : h.zone = ZoneUtc}
    /\ now = T0
    /\ users = RegisteredUsers
    /\ sreq = [p \in Procs |-> IdleReq]
    /\ loginResp = NoLogin
    /\ gate = NoGate
    /\ logoutResp = NoLogout
    /\ tasks = {}
    /\ task_id_seq = 0
    /\ taskResp = NoTaskResp
    /\ verifyResp = NoVerify
    /\ treq = [r \in Procs |-> IdleFlight]
    /\ console = NewConsole

NextTasks ==
    \/ Login
    \/ CreateTask
    \/ ListTasks
    \/ GetTask
    \/ UpdateTask
    \/ DeleteTask
    \/ ToggleTaskComplete

SpecTasks == InitTasks /\ [][NextTasks]_vars

\* SpecConsole: one TodoStorage and the calls of its caller; the backend
\* is idle
NextConsole ==
    \/ Construct
    \/ Add
    \/ Update
    \/ Delete

InitConsole == Init /\ ~host.bcryptStrict

SpecConsole == InitConsole /\ [][NextConsole]_vars

\* SpecVerify: logins and verify requests of the two accounts, host in UTC
NextVerify ==
    \/ Login
    \/ Verify
    \/ Tick(TokenInstants)

SpecVerify == InitTasks /\ [][NextVerify]_vars

\* SpecFlight: task requests of both users in flight together, against a
\* table that holds one task of each, on a host in UTC
SeededTasks ==
    { [id |-> u.id, user_id |-> u.id, title |-> "buy milk",
       description |-> None, completed |-> FALSE,
       created_at |-> UtcNow(T0), updated_at |-> UtcNow(T0)] : u \in RegisteredUsers }

InitFlight ==
    /\ host \in {h \in Hosts : h.zone = ZoneUtc}
    /\ now = T0
    /\ users = RegisteredUsers
    /\ sreq = [p \in Procs |-> IdleReq]
    /\ loginResp = NoLogin
    /\ gate = NoGate
    /\ logoutResp = NoLogout
    /\ tasks = SeededTasks
    /\ task_id_seq = Cardinality(SeededTasks)
    /\ taskResp = NoTaskResp
    /\ verifyResp = NoVerify
    /\ treq = [r \in Procs |-> IdleFlight]
    /\ console = NewConsole

NextFlight ==
    \/ \E r \in Procs : FlightDispatch(r)
    \/ \E r \in Procs : FlightHandle(r)
    \/ \E r \in Procs : FlightEnd(r)

SpecFlight == InitFlight /\ [][NextFlight]_vars

(***************************************************************************)
(* Properties of signup and login (specification Spec).                    *)
(***************************************************************************)
Done(p) == sreq[p].pc = "done"
Created(p) == Done(p) /\ sreq[p].status = 201

\* the rows with a given email, and the passwords they were signed up with
RowsOf(email) == {u \in users : u.email = email}
SignedUpWith(email) ==
    {sreq[p].password : p \in {q \in Procs : Created(q) /\ sreq[q].email = email}}

\* the one response of a refused login
InvalidCredentials ==
    [NoLogin EXCEPT !.status = 401, !.detail = MsgInvalidCredentials]

\* C1: of two validated signup requests with the same email, whatever the
\* interleaving of their steps, when one has succeeded the other ends with
\* the conflict response 409.
C1_SecondSignupIsConflict ==
    \A p, q \in Procs :
        (p # q /\ Created(p) /\ Done(q) /\ sreq[q].email = sreq[p].email
           /\ sreq[q].status # 422)
        => sreq[q].status = 409

\* C2: no two rows of the users table have the same email, and the rows are
\* exactly those the successful signups created and answered with: a signup
\* that failed, in any way, has left no row.
C2_EmailsUniqueNoPartialRow ==
    /\ \A u, v \in users : u.email = v.email => u = v
    /\ \A u \in users : \E p \in Procs : Created(p) /\ sreq[p].user = UserResponse(u)
    /\ Cardinality(users) = Cardinality({p \in Procs : Created(p)})

\* a signup lost the race for its email and failed at commit; one row exists
C2_Witness ==
    \E p, q \in Procs :
        /\ Created(p) /\ Done(q) /\ sreq[q].status = 500
        /\ sreq[q].email = sreq[p].email
        /\ Cardinality(users) = 1

\* C3: a signup that finds its email in the store when it looks it up ends
\* there with the conflict response 409 and the duplicate-email message, and
\* the store is left as it was: no row added, the existing row untouched.
C3_DuplicateSignupLeavesStore ==
    [][\A p \in Procs :
         (sreq[p].pc = "lookup" /\ sreq'[p].pc # "lookup"
            /\ RowsOf(sreq[p].email) # {})
         => /\ sreq'[p].pc = "done"
            /\ sreq'[p].status = 409
            /\ sreq'[p].detail = MsgDuplicate
            /\ sreq'[p].user = NoUserResponse
            /\ users' = users]_vars

\* a duplicate signup with another name and password, made a second after
\* the row it collides with was created, was answered 409
C3_Witness ==
    \E p \in Procs : \E u \in users :
        /\ Done(p) /\ sreq[p].status = 409 /\ sreq[p].detail = MsgDuplicate
        /\ u.email = sreq[p].email
        /\ u.name # sreq[p].name
        /\ u.password_hash.key # BcryptKey(sreq[p].password)
        /\ u.created_at < now

\* C4: a login with an email that has no row, and a login with a registered
\* email and a password other than the one signed up with, both get the same
\* response: 401 with the invalid-credentials detail and nothing else.
C4_RefusedLoginsAlike ==
    [][loginResp' # loginResp =>
         LET unknown == RowsOf(loginResp'.email) = {}
             wrong == /\ RowsOf(loginResp'.email) # {}
                      /\ loginResp'.password \notin SignedUpWith(loginResp'.email)
         IN (unknown \/ wrong) => loginResp' = [InvalidCredentials EXCEPT
                                                  !.email = loginResp'.email,
                                                  !.password = loginResp'.password,
                                                  !.at = loginResp'.at]]_vars

\* C5: once signup(e, p) has succeeded, login(e, q) succeeds if and only if
\* q = p, for passwords of every length signup accepts.
C5_LoginIffSignupPassword ==
    [][loginResp' # loginResp =>
         (RowsOf(loginResp'.email) # {} =>
            (loginResp'.status = 200
               <=> loginResp'.password \in SignedUpWith(loginResp'.email)))]_vars

\* every login the service refuses gets the one response InvalidCredentials
RefusedLoginsIdentical ==
    loginResp.status \notin {0, 200} =>
        loginResp = [InvalidCredentials EXCEPT !.email = loginResp.email,
                                               !.password = loginResp.password,
                                               !.at = loginResp.at]

(***************************************************************************)
(* Properties of tokens and the gatekeeper (specification SpecToken).      *)
(* gate is reset by every login and every tick of the clock: while it      *)
(* holds an outcome, now is the instant of the request and loginResp the   *)
(* login that preceded it.                                                 *)
(***************************************************************************)
TokenTtl == TokenTtlDays * SecondsPerDay

\* the latest request went to a path the gatekeeper protects
Protected ==
    /\ gate.outcome # None
    /\ gate.method # "OPTIONS"
    /\ gate.path \notin (PublicAuthPaths \cup OpenPaths)

\* ... and carried "Bearer <token>"
Bears(token) ==
    Protected /\ StartsWithBearer(gate.header) /\ gate.header[2] = token

Accepted == gate.outcome = "call_next"
Rejected(msg) ==
    /\ gate.outcome = "HTTPException" /\ gate.status = 401 /\ gate.detail = msg
    /\ gate.user_id = Absent /\ gate.email = None

LoggedIn == loginResp.status = 200
IssuedClaims == loginResp.token.payload

\* C6: a protected request that bears the token of a login, at any instant
\* before the token's exp claim, is let through with the identity of the
\* user who logged in.
C6_IssuedTokenAccepted ==
    (LoggedIn /\ Bears(loginResp.token) /\ now < IssuedClaims.exp)
    => /\ Accepted
       /\ gate.user_id = loginResp.user.id
       /\ gate.email = loginResp.user.email

\* C7: a token issued by login (hence correctly signed) is refused as
\* expired at every instant from its exp claim on, the second exp included,
\* and is let through at the second exp - 1.
C7_ExpiryBoundary ==
    (LoggedIn /\ Bears(loginResp.token))
    => /\ now >= IssuedClaims.exp => Rejected(MsgExpired)
       /\ now = IssuedClaims.exp - 1 => Accepted /\ gate.user_id = loginResp.user.id

\* a token refused at the very second of its exp claim
C7_Witness ==
    /\ LoggedIn /\ Bears(loginResp.token)
    /\ now = IssuedClaims.exp
    /\ Rejected(MsgExpired)

\* the same token was still let through one second earlier
C7_LastValidSecond ==
    /\ LoggedIn /\ Bears(loginResp.token)
    /\ now = IssuedClaims.exp - 1
    /\ Accepted

\* C8: the exp claim of every issued token is its iat claim plus 7 days.
C8_LifetimeIsSevenDays ==
    LoggedIn => IssuedClaims.exp = IssuedClaims.iat + TokenTtl

\* C9: the iat claim is the instant of the login, and the expires_at of the
\* response denotes the instant of the exp claim, the login plus 7 days.
C9_ClaimsMatchClock ==
    LoggedIn =>
        /\ IssuedClaims.iat = loginResp.at
        /\ IsoZInstant(loginResp.expires_at) = IssuedClaims.exp
        /\ IssuedClaims.exp = loginResp.at + TokenTtl

\* C10: a three-segment token whose signature is not the HMAC of its own
\* header and payload under the configured secret is refused as an invalid
\* token and no identity is attached; whatever identity the gatekeeper
\* attaches comes from claims signed with the configured secret.
C10_ForgedTokenRejected ==
    \A token \in BearerTokens :
        /\ (Bears(token) /\ token.segments = 3
              /\ token.sig # HmacSign(Secret, token.alg, token.payload))
           => Rejected(MsgInvalidToken)
        /\ (Bears(token) /\ gate.user_id # Absent)
           => /\ token.sig.key = Secret
              /\ token.sig.payload = token.payload
              /\ gate.user_id \in {token.sig.payload.user_id,
                                  token.sig.payload.sub}
              /\ gate.email = token.sig.payload.email

\* the payload of an issued token was altered to name the other user, the
\* signature kept, and the request was refused
C10_Witness ==
    \E u \in users :
        /\ LoggedIn /\ u.id # loginResp.user.id
        /\ Bears([loginResp.token EXCEPT !.payload.user_id = u.id,
                                         !.payload.sub = u.id])
        /\ now < IssuedClaims.exp /\ now >= IssuedClaims.iat
        /\ Rejected(MsgInvalidToken)

(***************************************************************************)
(* The order of the gatekeeper's checks.  A token is wrongly signed when   *)
(* its algorithm is not the configured one or its signature is not the     *)
(* HMAC of its header and payload under the configured secret.             *)
(***************************************************************************)
Malformed(token) == token.segments # 3
WronglySigned(token) ==
    \/ token.alg \notin Algorithms
    \/ token.sig # HmacSign(Secret, token.alg, token.payload)
Expired(token) == token.payload.exp # Absent /\ now >= token.payload.exp
NoIdentifier(token) ==
    token.payload.user_id = Absent /\ token.payload.sub = Absent

\* C11: the gatekeeper reports the first check that fails, in the order
\* structure, signature, expiry, subject: a malformed token and a wrongly
\* signed token are refused as invalid even when expired, and a correctly
\* signed expired token is refused as expired even when it names no subject.
C11_FirstFailingCheck ==
    \A token \in BearerTokens :
        Bears(token) =>
            /\ Malformed(token) => Rejected(MsgInvalidToken)
            /\ (~Malformed(token) /\ WronglySigned(token))
               => Rejected(MsgInvalidToken)
            /\ (~Malformed(token) /\ ~WronglySigned(token) /\ Expired(token))
               => Rejected(MsgExpired)

\* a token signed with another secret, presented at its expiry second, was
\* refused as invalid and not as expired
C11_Witness ==
    /\ LoggedIn
    /\ Bears(JwtEncode(IssuedClaims, OtherSecret, "HS256"))
    /\ now >= IssuedClaims.exp
    /\ Rejected(MsgInvalidToken)

\* a correctly signed token without any subject, presented after its
\* expiry, was refused as expired
C11_ExpiredBeforeSubject ==
    /\ LoggedIn
    /\ Bears(JwtEncode([IssuedClaims EXCEPT !.user_id = Absent, !.sub = Absent],
                       Secret, "HS256"))
    /\ now >= IssuedClaims.exp
    /\ Rejected(MsgExpired)

\* C12: a three-segment token whose header names an algorithm other than
\* HS256, the unsigned algorithm "none" included, is refused as an invalid
\* token whatever its payload and signature, and no identity is attached.
C12_AlgorithmPinned ==
    \A token \in BearerTokens :
        (Bears(token) /\ ~Malformed(token) /\ token.alg # "HS256")
        => Rejected(MsgInvalidToken)

\* a token with unexpired claims and a good HS512 signature under the
\* configured secret was refused
C12_Witness ==
    /\ LoggedIn
    /\ Bears(JwtEncode(IssuedClaims, Secret, "HS512"))
    /\ IssuedClaims.iat <= now /\ now < IssuedClaims.exp
    /\ Rejected(MsgInvalidToken)

\* ... and so was an unsigned token naming another user
C12_UnsignedRefused ==
    \E token \in BearerTokens :
        /\ Bears(token) /\ token.alg = "none" /\ token.sig = NoSig
        /\ token.payload.sub # loginResp.user.id
        /\ Rejected(MsgInvalidToken)

\* C13 as stated: a correctly signed, unexpired token without the sub claim
\* is refused for its missing subject, whatever other claims it carries.
C13_NoSubRejected ==
    \A token \in BearerTokens :
        (Bears(token) /\ JwtDecodeError(token, Secret, Algorithms, now) = None
           /\ token.payload.sub = Absent)
        => Rejected(MsgAuthFailed)

\* C13 amended: a token that carries neither user_id nor sub is refused and
\* no identity is attached; when it is correctly signed and unexpired the
\* refusal is the one for a missing identifier.  (A token without sub that
\* carries user_id is let through with user_id as its identity.)
C13_NoIdentifierRejected ==
    \A token \in BearerTokens :
        (Bears(token) /\ NoIdentifier(token))
        => /\ gate.outcome = "HTTPException"
           /\ gate.user_id = Absent /\ gate.email = None
           /\ JwtDecodeError(token, Secret, Algorithms, now) = None
              => Rejected(MsgAuthFailed)

\* a correctly signed, unexpired token with an email and no identifier was
\* refused for the missing identifier
C13_Witness ==
    \E token \in BearerTokens :
        /\ Bears(token) /\ NoIdentifier(token)
        /\ token.payload.email # None
        /\ JwtDecodeError(token, Secret, Algorithms, now) = None
        /\ Rejected(MsgAuthFailed)

\* a correctly signed, unexpired token with user_id and without sub was let
\* through
C13_UserIdWithoutSub ==
    \E token \in BearerTokens :
        /\ Bears(token) /\ token.payload.sub = Absent
        /\ Accepted /\ gate.user_id = token.payload.user_id
        /\ gate.user_id # Absent

(***************************************************************************)
(* What reaches downstream handling.                                       *)
(***************************************************************************)
NoIdentity == gate.user_id = Absent /\ gate.email = None
Refused == gate.outcome = "HTTPException" /\ NoIdentity

\* C14: on a protected path the downstream handler runs only when the
\* Authorization header holds a bearer token that passes verification, and
\* then with the identity of the token's signed claims; a request with no
\* header, a header that is not "Bearer <token>", or a token that is no
\* token is refused before downstream handling.
C14_DownstreamOnlyVerified ==
    Protected =>
        /\ Accepted =>
              /\ StartsWithBearer(gate.header)
              /\ JwtDecodeError(gate.header[2], Secret, Algorithms, now) = None
              /\ ~WronglySigned(gate.header[2])
              /\ gate.user_id # Absent
              /\ gate.user_id \in {gate.header[2].payload.user_id,
                                  gate.header[2].payload.sub}
              /\ gate.email = gate.header[2].payload.email
        /\ (\/ gate.header = <<>>
            \/ ~StartsWithBearer(gate.header)
            \/ Malformed(gate.header[2])) => Refused

\* a protected request with "Bearer <garbage>" was refused
C14_Witness ==
    Bears(Garbage) /\ Refused /\ gate.detail = MsgInvalidToken

\* ... as were one without the header and one with a Basic header
C14_NoHeaderRefused ==
    Protected /\ gate.header = <<>> /\ Refused /\ gate.detail = MsgAuthRequired
C14_NotBearerRefused ==
    /\ Protected /\ gate.header # <<>> /\ ~StartsWithBearer(gate.header)
    /\ Refused /\ gate.detail = MsgBadFormat

\* the latest request was a preflight or went to login, signup or health
Bypassed ==
    /\ gate.outcome # None
    /\ \/ gate.method = "OPTIONS"
       \/ gate.path \in {"/api/auth/login", "/api/auth/signup", "/health"}

\* C15: a preflight and a request to login, signup or health go on to
\* downstream handling whatever their Authorization header is: absent, a
\* valid token, a forged one or garbage; no identity is attached.
C15_BypassUntouched == Bypassed => (Accepted /\ NoIdentity)

\* a login request without Authorization header went through
C15_Witness ==
    /\ Bypassed /\ gate.path = "/api/auth/login" /\ gate.header = <<>>
    /\ Accepted /\ NoIdentity

\* a bypassed request bearing an issued token that has expired went
\* through, and no identity was attached
C15_TokenNotInspected ==
    /\ Bypassed /\ LoggedIn /\ StartsWithBearer(gate.header)
    /\ gate.header[2] = loginResp.token
    /\ now >= IssuedClaims.exp
    /\ Accepted /\ NoIdentity

\* C16: every rejection by the gatekeeper (no header, malformed header,
\* invalid token, expired token, missing identifier) reaches the client
\* with status 401 and the detail the gatekeeper gave it, never as a
\* server fault or a success.
C16_RejectionsReachClientAs401 ==
    gate.outcome = "HTTPException" =>
        /\ GateClientResponse(gate).status = 401
        /\ GateClientResponse(gate).detail = gate.detail
        /\ gate.detail \in {MsgAuthRequired, MsgBadFormat, MsgInvalidToken,
                            MsgExpired, MsgAuthFailed}

\* what the gatekeeper raises is always a 401 with one of its five details
RaisedIs401 ==
    gate.outcome = "HTTPException" =>
        /\ gate.status = 401
        /\ gate.detail \in {MsgAuthRequired, MsgBadFormat, MsgInvalidToken,
                            MsgExpired, MsgAuthFailed}

(***************************************************************************)
(* Properties of the task endpoints (specification SpecTasks).  A step is  *)
(* a task request when it leaves a verdict of the gatekeeper in gate; the  *)
(* verified subject of the request is gate'.user_id, Absent if refused.    *)
(***************************************************************************)
TaskStep == gate'.outcome # None
CrossUserStep ==
    /\ TaskStep
    /\ gate'.outcome = "call_next"
    /\ gate'.user_id # taskResp'.user_id
TableUnchanged == tasks' = tasks /\ task_id_seq' = task_id_seq
Denied(resp) ==
    resp.status = 403 /\ resp.detail = MsgAccessDenied /\ resp.tasks = {}

C17_InvalidBodyFirst ==
    /\ gate.outcome = "call_next" /\ gate.user_id # taskResp.user_id
    /\ taskResp.endpoint = "create_task" /\ taskResp.status = 422

C18_BothOwnTasks ==
    /\ gate.outcome = "call_next"
    /\ taskResp.endpoint = "list_tasks" /\ taskResp.status = 200
    /\ taskResp.tasks # {} /\ taskResp.tasks # tasks
    /\ taskResp.tasks = TasksOf(tasks, gate.user_id)

(***************************************************************************)
(* Properties of logout (specification SpecLogout).  logoutResp is reset   *)
(* by every login: a logout answered 200 was made with the token of the    *)
(* latest login.                                                           *)
(***************************************************************************)
LoggedOut ==
    /\ LoggedIn
    /\ logoutResp.status = 200
    /\ logoutResp.header = <<"Bearer", loginResp.token>>

\* C19: after a logout answered 200, every protected request bearing the
\* token the logout was made with is let through until the token's exp,
\* with the identity of the user, and refused as expired from exp on; and
\* a logout changes neither the users table nor the tasks table.
C19_LogoutRevokesNothing ==
    [][LET after == (LoggedOut /\ Bears(loginResp.token))'
           before_exp == (now < IssuedClaims.exp)'
           accepted == (Accepted /\ gate.user_id = loginResp.user.id)'
           expired == Rejected(MsgExpired)'
       IN /\ after => IF before_exp THEN accepted ELSE expired
          /\ (gate'.outcome # None /\ gate'.path = "/api/auth/logout") =>
                /\ users' = users
                /\ tasks' = tasks /\ task_id_seq' = task_id_seq]_vars

\* after a logout, a later request for /api/auth/verify with the same token
\* was let through
C19_Witness ==
    /\ LoggedOut /\ Bears(loginResp.token)
    /\ gate.path = "/api/auth/verify"
    /\ now > loginResp.at /\ now < IssuedClaims.exp
    /\ Accepted /\ gate.user_id = loginResp.user.id

\* ... and from the token's exp on it was refused as expired
C19_ExpiredAfterLogout ==
    /\ LoggedOut /\ Bears(loginResp.token)
    /\ now >= IssuedClaims.exp
    /\ Rejected(MsgExpired)

(***************************************************************************)
(* Response payloads (specification Spec).                                 *)
(***************************************************************************)
\* C20: no response of signup or login carries a password hash: not the
\* user object of a success, and not the detail of an error, the 500 built
\* from the caught exception included.
C20_NoHashInResponses ==
    /\ \A p \in Procs :
          /\ "password_hash" \notin DOMAIN sreq[p].user
          /\ Done(p) => sreq[p].detail_parameters.password_hash = NoHash
    /\ "password_hash" \notin DOMAIN loginResp.user

\* the user objects of the success responses never carry it
UserResponsesCarryNoHash ==
    /\ \A p \in Procs : "password_hash" \notin DOMAIN sreq[p].user
    /\ "password_hash" \notin DOMAIN loginResp.user

(***************************************************************************)
(* Failures of the store (specification SpecFault).                        *)
(***************************************************************************)
\* str contains sub
Contains(str, sub) ==
    \E i \in 1..(Len(str) - Len(sub) + 1) :
        SubSeq(str, i, i + Len(sub) - 1) = sub

\* the step is a statement of signup p, or a login, that the store failed
StoreFailedSignup(p) ==
    /\ host.store = "down"
    /\ sreq[p].pc \in {"lookup", "commit"} /\ sreq'[p].pc # sreq[p].pc
StoreFailedLogin == host.store = "down" /\ loginResp' # loginResp

\* C21: a signup or a login that the store fails, at the lookup or at the
\* creation of the user, is answered with a server fault (500), never with
\* the conflict or the invalid-credentials response, and the body carries
\* nothing of the failure: not its message, not the statement's values.
C21_StoreFailureGenericFault ==
    [][/\ \A p \in Procs :
            StoreFailedSignup(p) =>
                /\ sreq'[p].pc = "done" /\ sreq'[p].status = 500
                /\ ~Contains(sreq'[p].detail, StoreFailureText)
                /\ sreq'[p].detail_parameters = NoUser
       /\ StoreFailedLogin =>
             /\ loginResp'.status = 500
             /\ ~Contains(loginResp'.detail, StoreFailureText)]_vars

\* the class of the response is the server fault, in signup and in login
StoreFailureIsServerFault ==
    [][/\ \A p \in Procs :
            StoreFailedSignup(p) =>
                /\ sreq'[p].pc = "done" /\ sreq'[p].status = 500
                /\ users' = users
       /\ StoreFailedLogin =>
             /\ loginResp'.status = 500
             /\ loginResp'.token = NoToken /\ loginResp'.user = NoUserResponse]_vars

\* a login was answered 500 while a row with its email and password existed
StoreFailedLoginAnswered ==
    /\ loginResp.status = 500
    /\ \E u \in users :
          u.email = loginResp.email /\ BcryptCheckpw(loginResp.password, u.password_hash)

(***************************************************************************)
(* The operational log (specification Spec).                               *)
(***************************************************************************)
Secretless(record) ==
    /\ record.parameters.password_hash = NoHash
    /\ record.password = <<>>
    /\ record.token = NoToken

\* C22: no record of the operational log, at INFO or above, carries a
\* plaintext password, a password hash or a token: not those of signup,
\* login and the gatekeeper, and not those of the statements the engine
\* executes for signup and login.
C22_NoSecretsInLog == \A record \in OperationalLog : Secretless(record)

\* the records of login and of the gatekeeper carry none
LoginAndGateLogSecretless ==
    \A record \in LoginLog \cup GateLog : Secretless(record)

\* the gatekeeper logged an accepted request of a logged-in user
GateLogWritten ==
    \E record \in GateLog : record.level = "INFO" /\ LoggedIn /\ Accepted

(***************************************************************************)
(* The environment of the process (specification SpecEnviron).             *)
(***************************************************************************)
SecretLongEnough(key) == key # "" /\ Len(key) >= MinSecretLen

\* C23: with a signing secret that is absent or shorter than 32 characters
\* the application does not come up, and no token is issued or verified;
\* every token issued is signed with, and every token accepted was
\* verified under, the secret of the environment that passed the
\* validation at startup.
C23_SecretValidated ==
    /\ ~SecretLongEnough(host.environ.BETTER_AUTH_SECRET) =>
          /\ host.app \in {"starting", "failed"}
          /\ loginResp = NoLogin /\ gate = NoGate
    /\ LoggedIn =>
          /\ loginResp.token.sig.key = host.environ.BETTER_AUTH_SECRET
          /\ SecretLongEnough(loginResp.token.sig.key)
    /\ (Protected /\ Accepted) =>
          /\ gate.header[2].sig.key = host.environ.BETTER_AUTH_SECRET
          /\ SecretLongEnough(gate.header[2].sig.key)

\* startup failed for a secret of 31 characters alone
C23_Witness ==
    /\ host.app = "failed"
    /\ host.environ.BETTER_AUTH_SECRET = ShortSecret
    /\ host.environ.DATABASE_URL = ValidDatabaseUrl

\* on a host that came up, a token was issued and then accepted
C23_IssuedAndVerified ==
    /\ Running /\ LoggedIn /\ Bears(loginResp.token) /\ Accepted
    /\ Len(loginResp.token.sig.key) = MinSecretLen

\* C25: the cookie of a successful login is HTTP-only with max-age equal
\* to the lifetime of the token; where NODE_ENV is not "development" it is
\* Secure with SameSite=strict, and only where it is "development" it is
\* not Secure, with SameSite=lax.
C25_CookieFlags ==
    LoggedIn =>
        /\ loginResp.cookie.key = "auth_token"
        /\ loginResp.cookie.value = loginResp.token
        /\ loginResp.cookie.httponly
        /\ loginResp.cookie.max_age = TokenTtl
        /\ IF host.environ.NODE_ENV = "development"
           THEN ~loginResp.cookie.secure /\ loginResp.cookie.samesite = "lax"
           ELSE loginResp.cookie.secure /\ loginResp.cookie.samesite = "strict"

\* what holds of the cookie in every environment
CookieHttpOnlyForTtl ==
    LoggedIn =>
        /\ loginResp.cookie.value = loginResp.token
        /\ loginResp.cookie.httponly
        /\ loginResp.cookie.max_age = TokenTtl
        /\ host.environ.NODE_ENV = "production" =>
              loginResp.cookie.secure /\ loginResp.cookie.samesite = "strict"
        /\ host.environ.NODE_ENV = "development" =>
              ~loginResp.cookie.secure /\ loginResp.cookie.samesite = "lax"

(***************************************************************************)
(* Malformed digests (specification SpecDigest).                           *)
(***************************************************************************)
\* the latest login named a row with a malformed digest; ... a row with a
\* good digest and gave a password that is not the row's
LoginOnMalformedDigest ==
    /\ loginResp.status # 0
    /\ \E u \in users :
          u.email = loginResp.email /\ BcryptInvalidSalt(u.password_hash)
LoginWithWrongPassword ==
    /\ loginResp.status # 0
    /\ \E u \in users :
          /\ u.email = loginResp.email /\ ~BcryptInvalidSalt(u.password_hash)
          /\ BcryptKey(loginResp.password) # u.password_hash.key

\* C24: a login against a row whose digest is malformed gets the response
\* of a login with a wrong password: 401 with the invalid-credentials
\* detail, no user, no token, no cookie; never a server fault.
C24_MalformedDigestInvalidCredentials ==
    (LoginOnMalformedDigest \/ LoginWithWrongPassword) =>
        loginResp = [InvalidCredentials EXCEPT !.email = loginResp.email,
                                               !.password = loginResp.password,
                                               !.at = loginResp.at]

\* a login on the row with the malformed digest was answered 401
C24_Witness ==
    /\ LoginOnMalformedDigest
    /\ loginResp.status = 401 /\ loginResp.detail = MsgInvalidCredentials

\* ... as was one with a wrong password on the row with a good digest
C24_WrongPasswordAnswered ==
    LoginWithWrongPassword /\ loginResp.status = 401

(***************************************************************************)
(* Requests in flight together (specification SpecFlight; the clock        *)
(* stands still, so the gatekeeper's verdict on a request can be           *)
(* recomputed from the request alone).                                     *)
(***************************************************************************)
FlightVerdict(r) ==
    Dispatch([method |-> "GET", path |-> TasksPath(treq[r].user_id)],
             treq[r].header, now)

\* C26: whatever requests are in flight or were handled before, each
\* request gets the verdict the gatekeeper gives on that request alone,
\* and its handler sees exactly the identity verified from its own token.
C26_PerRequestIdentity ==
    \A r \in Procs :
        LET g == FlightVerdict(r)
            passed == g.outcome = "call_next"
        IN /\ treq[r].pc = "idle" => treq[r] = IdleFlight
           /\ treq[r].pc = "handler" =>
                 passed /\ treq[r].state = RequestState(g)
           /\ treq[r].pc = "done" =>
                 IF passed
                 THEN /\ treq[r].state = RequestState(g)
                      /\ treq[r].authenticated_user_id = g.user_id
                      /\ treq[r].status =
                            IF g.user_id = treq[r].user_id THEN 200 ELSE 403
                      /\ treq[r].tasks =
                            IF g.user_id = treq[r].user_id
                            THEN TasksOf(tasks, g.user_id) ELSE {}
                 ELSE /\ treq[r].state = NoRequestState
                      /\ treq[r].authenticated_user_id = Absent
                      /\ treq[r].status = 500 /\ treq[r].tasks = {}

\* while a request of one user waited for its handler, a request of the
\* other user passed the gatekeeper and was answered with its own task
C26_Witness ==
    \E r, q \in Procs :
        /\ treq[r].pc = "handler" /\ treq[q].pc = "done"
        /\ treq[q].status = 200 /\ treq[q].tasks # {}
        /\ treq[r].state.user_id # Absent
        /\ treq[q].authenticated_user_id # treq[r].state.user_id
        /\ \A t \in treq[q].tasks : t.user_id = treq[q].authenticated_user_id

(***************************************************************************)
(* Verify (specification SpecVerify).                                      *)
(***************************************************************************)
Verified ==
    /\ LoggedIn /\ verifyResp.status = 200
    /\ verifyResp.header = <<"Bearer", loginResp.token>>

\* C28: verify, called with the token of a login, answers valid = true
\* with the data of the user and an expires_at that is the expiry of the
\* token, the one the login answered with.
C28_VerifyReturnsExpiry ==
    Verified =>
        /\ verifyResp.valid
        /\ verifyResp.user = loginResp.user
        /\ verifyResp.expires_at = loginResp.expires_at
        /\ IsoZInstant(verifyResp.expires_at) = IssuedClaims.exp

\* valid = true and the data of the user are as claimed
VerifyReturnsUser ==
    Verified =>
        /\ verifyResp.valid
        /\ verifyResp.user = loginResp.user
        /\ verifyResp.user = UserResponse(FindById(users, IssuedClaims.sub))

(***************************************************************************)
(* The order of the steps of signup and its conflict response              *)
(* (specification SpecSignup).                                             *)
(***************************************************************************)
\* C27: signup runs lookup, then hash, then create.  The hasher is invoked
\* only in the step after a lookup that found no row, a row is created
\* only in the step after the hash, and a lookup that finds the email ends
\* the request with the duplicate-email conflict: no digest was or is
\* computed for it and nothing is written to the store.
C27_LookupHashCreate ==
    [][/\ \A p \in Procs :
            /\ (sreq[p].pc = "lookup" /\ sreq'[p].pc # "lookup"
                  /\ RowsOf(sreq[p].email) # {})
               => /\ sreq[p].password_hash = NoHash
                  /\ sreq'[p].password_hash = NoHash
                  /\ sreq'[p].pc = "done" /\ sreq'[p].status = 409
                  /\ sreq'[p].detail = MsgDuplicate
                  /\ users' = users
            /\ (sreq'[p].pc = "hash" /\ sreq[p].pc # "hash")
               => sreq[p].pc = "lookup" /\ RowsOf(sreq[p].email) = {}
            /\ (sreq'[p].password_hash # sreq[p].password_hash
                  /\ sreq'[p].password_hash # NoHash)
               => sreq[p].pc = "hash" /\ sreq'[p].pc = "commit"
            /\ (sreq'[p].pc = "commit" /\ sreq[p].pc # "commit")
               => sreq[p].pc = "hash"
       /\ users' # users =>
             \E p \in Procs : sreq[p].pc = "commit" /\ sreq'[p].pc = "done"]_vars

\* a signup found its email in the store, in the second in which the row
\* was created by the other signup, and ended with the conflict response;
\* the store holds that one row
C27_Witness ==
    \E p, q \in Procs :
        /\ Done(p) /\ sreq[p].status = 409 /\ sreq[p].detail = MsgDuplicate
        /\ sreq[p].password_hash = NoHash
        /\ Created(q) /\ sreq[q].email = sreq[p].email
        /\ users = {FindByEmail(users, sreq[p].email)}
        /\ FindByEmail(users, sreq[p].email).created_at = now

\* C29: signup answers 409 only when a row with the requested email
\* exists, with the duplicate-email detail; every other failure of signup
\* gets a response of another class.
C29_ConflictOnlyForExistingEmail ==
    \A p \in Procs :
        (Done(p) /\ sreq[p].status = 409)
        => /\ sreq[p].detail = MsgDuplicate
           /\ RowsOf(sreq[p].email) # {}

\* it holds on the hosts whose bcrypt does not refuse long passwords
ConflictOnlyForExistingEmailLax ==
    ~host.bcryptStrict =>
        \A p \in Procs :
            (Done(p) /\ sreq[p].status = 409)
            => sreq[p].detail = MsgDuplicate /\ RowsOf(sreq[p].email) # {}

(***************************************************************************)
(* Updates of a task (specification SpecTasks).                            *)
(***************************************************************************)
UpdateStep ==
    /\ TaskStep
    /\ taskResp'.endpoint = "update_task" /\ taskResp'.status = 200

\* the task of the update before and after the step, and its body
UpdateOld == FindTask(tasks, taskResp'.task_id, taskResp'.user_id)
UpdateNew == FindTask(tasks', taskResp'.task_id, taskResp'.user_id)

\* C30: an update by the owner gives each provided field its provided
\* value (trimmed), an empty description included, keeps each omitted
\* field, and leaves completed, owner, id and created_at as they were.
C30_UpdateOnlyProvided ==
    [][UpdateStep =>
         LET body == taskResp'.body
         IN /\ UpdateNew.title =
                 IF body.title # None THEN Strip(body.title) ELSE UpdateOld.title
            /\ UpdateNew.description =
                 IF body.description # None THEN Strip(body.description)
                 ELSE UpdateOld.description
            /\ UpdateNew.completed = UpdateOld.completed
            /\ UpdateNew.user_id = UpdateOld.user_id
            /\ UpdateNew.id = UpdateOld.id
            /\ UpdateNew.created_at = UpdateOld.created_at
            /\ taskResp'.tasks = {UpdateNew}]_vars

\* what holds: a provided field that is not empty takes its value, an
\* omitted field keeps its value, and the other fields are left alone
UpdateFrame ==
    [][UpdateStep =>
         LET body == taskResp'.body
         IN /\ UpdateNew.title =
                 IF body.title # None THEN Strip(body.title) ELSE UpdateOld.title
            /\ UpdateNew.description =
                 IF body.description \notin {None, ""}
                 THEN Strip(body.description) ELSE UpdateOld.description
            /\ UpdateNew.completed = UpdateOld.completed
            /\ UpdateNew.user_id = UpdateOld.user_id
            /\ UpdateNew.id = UpdateOld.id
            /\ UpdateNew.created_at = UpdateOld.created_at
            /\ taskResp'.tasks = {UpdateNew}
            /\ tasks' \ {UpdateNew} = tasks \ {UpdateOld}]_vars

\* an update that provided an empty description left the description
\* "today" of a completed task in place
EmptyDescriptionIgnored ==
    /\ taskResp.endpoint = "update_task" /\ taskResp.status = 200
    /\ taskResp.body.description = ""
    /\ \E t \in taskResp.tasks : t.description = "today" /\ t.completed


(***************************************************************************)
(* Toggling and creating a task (specification SpecTasks).                 *)
(***************************************************************************)
ToggleStep ==
    /\ TaskStep
    /\ taskResp'.endpoint = "toggle_task_complete" /\ taskResp'.status = 200
CreateStep ==
    /\ TaskStep
    /\ taskResp'.endpoint = "create_task" /\ taskResp'.status = 201

\* the task of the toggle before and after the step
ToggleOld == FindTask(tasks, taskResp'.task_id, taskResp'.user_id)
ToggleNew == FindTask(tasks', taskResp'.task_id, taskResp'.user_id)

\* the step follows a toggle of the same task that was answered 200
SecondToggle ==
    /\ ToggleStep
    /\ taskResp.endpoint = "toggle_task_complete" /\ taskResp.status = 200
    /\ taskResp.task_id = taskResp'.task_id
    /\ taskResp.user_id = taskResp'.user_id

\* C31: a toggle by the owner flips completed and leaves title,
\* description, owner and id (and every other task) as they were; the
\* second of two consecutive toggles gives completed the value it had
\* before the first; a task that was just created has completed = FALSE.
C31_ToggleFlipsCompleted ==
    [][/\ ToggleStep =>
            /\ ToggleNew.completed = ~ToggleOld.completed
            /\ ToggleNew.title = ToggleOld.title
            /\ ToggleNew.description = ToggleOld.description
            /\ ToggleNew.user_id = ToggleOld.user_id
            /\ ToggleNew.id = ToggleOld.id
            /\ taskResp'.tasks = {ToggleNew}
            /\ tasks' \ {ToggleNew} = tasks \ {ToggleOld}
       /\ SecondToggle =>
            \A first \in taskResp.tasks :
                ToggleNew.completed = ~first.completed
       /\ CreateStep =>
            /\ \A t \in taskResp'.tasks : ~t.completed /\ t \in tasks'
            /\ taskResp'.tasks # {}]_vars

\* a toggle answered 200 that follows the update of the task left it not
\* completed again: it had been created not completed, toggled and updated
C31_Witness ==
    /\ taskResp.endpoint = "toggle_task_complete" /\ taskResp.status = 200
    /\ \E t \in taskResp.tasks :
         /\ ~t.completed /\ t \in tasks
         /\ t.title = "call Bob" /\ t.description = "today"


(***************************************************************************)
(* Deleting a task (specification SpecTasks).  An id is gone when the      *)
(* sequence has passed it and no row carries it.                           *)
(***************************************************************************)
Gone(rows, seq, id) == id \in 1..seq /\ ~\E t \in rows : t.id = id
Owns(rows, user_id, task_id) ==
    \E t \in rows : t.id = task_id /\ t.user_id = user_id

\* a request that passed the gatekeeper as the user its path names
OwnerStep ==
    /\ TaskStep
    /\ gate'.outcome = "call_next"
    /\ gate'.user_id = taskResp'.user_id
ByIdEndpoints ==
    {"get_task", "update_task", "delete_task", "toggle_task_complete"}
NotFound(resp) ==
    resp.status = 404 /\ resp.detail = MsgTaskNotFound /\ resp.tasks = {}

\* a successful delete removes the row of its path and no other; an id
\* that is gone stays gone; a list carries only rows of the table
DeleteExact ==
    /\ (TaskStep /\ taskResp'.endpoint = "delete_task"
                 /\ taskResp'.status = 204)
       => /\ Owns(tasks, taskResp'.user_id, taskResp'.task_id)
          /\ tasks' = {t \in tasks : t.id # taskResp'.task_id}
          /\ task_id_seq' = task_id_seq
    /\ \A id \in TaskIds :
          Gone(tasks, task_id_seq, id) => Gone(tasks', task_id_seq', id)
    /\ (TaskStep /\ taskResp'.endpoint = "list_tasks"
                 /\ taskResp'.status = 200)
       => /\ taskResp'.tasks = {t \in tasks : t.user_id = taskResp'.user_id}
          /\ TableUnchanged

\* the owner's delete of an id that the owner has no task of
DeleteMissing ==
    (OwnerStep /\ taskResp'.endpoint = "delete_task"
               /\ ~Owns(tasks, taskResp'.user_id, taskResp'.task_id))
    => (NotFound(taskResp') /\ TableUnchanged)

BodyValid(resp) ==
    resp.endpoint = "update_task"
    => (resp.body.title = None \/ TitleValid(resp.body.title))

C32_InvalidUpdateOfDeleted ==
    /\ Accepted /\ gate.user_id = taskResp.user_id
    /\ taskResp.endpoint = "update_task" /\ taskResp.body.title = ""
    /\ Gone(tasks, task_id_seq, taskResp.task_id)
    /\ taskResp.status = 422


(***************************************************************************)
(* Properties of the console's TodoStorage (specification SpecConsole).    *)
(* A step is a call of add, update or delete when it leaves that name in   *)
(* console.result.                                                         *)
(***************************************************************************)
AddStep == console'.result.op = "add"
ConsoleUpdateStep == console'.result.op = "update"

\* every stored todo carries the id it is stored under, and no two entries
\* of the storage carry the same id
KeyedByOwnId(c) == \A k \in Stored(c) : TodoAt(c, k).id = k
DistinctIds(c) ==
    \A k1, k2 \in Stored(c) : k1 # k2 => TodoAt(c, k1).id # TodoAt(c, k2).id

\* add hands out _next_id and moves it on by one, so the ids are 1, 2, 3,
\* ... in the order of the calls; the id it hands out was never stored
\* before, and delete and update leave the counter alone
IdsSequentialNeverReused ==
    /\ AddStep =>
         /\ console'.result.id = console._next_id
         /\ console'._next_id = console._next_id + 1
         /\ Stored(console') = Stored(console) \cup {console'.result.id}
         /\ console'.result.id \notin Stored(console)
    /\ ~AddStep => console'._next_id = console._next_id
    /\ \A k \in Stored(console') : k < console'._next_id

\* C33: after any sequence of add and delete, the ids handed out by add
\* are 1, 2, 3, ... in the order of the calls, every stored todo is keyed
\* by its own id, no two stored todos share an id, and an id freed by
\* delete is never handed out again.
C33_SequentialUniqueIds ==
    [][/\ IdsSequentialNeverReused
       /\ KeyedByOwnId(console')
       /\ DistinctIds(console')]_vars

\* the part about the counter holds
C33_Counter == [][IdsSequentialNeverReused]_vars

\* an add of a Todo that the storage does not hold keeps every stored todo
\* keyed by its own id
C33_KeyedUnlessReAdded ==
    [][(/\ AddStep
        /\ \A k \in Stored(console) :
              console._todos[k] # console'._todos[console'.result.id]
        /\ KeyedByOwnId(console) /\ DistinctIds(console))
       => (KeyedByOwnId(console') /\ DistinctIds(console'))]_vars

\* the same Todo is stored under two ids and carries the later one
C33_SameTodoTwice ==
    \E k1, k2 \in Stored(console) :
        /\ k1 < k2
        /\ console._todos[k1] = console._todos[k2]
        /\ TodoAt(console, k1).id = k2


\* the storage apart from the outcome of the call, and a title that update
\* and Todo refuse
StorageUnchanged ==
    /\ console'.objects = console.objects
    /\ console'._todos = console._todos
    /\ console'._next_id = console._next_id
TitleRefused(title) ==
    title = "" \/ Strip(title) = "" \/ Len(title) > MaxTitleLen

\* C34: update of an id that is not stored returns False and changes
\* nothing; with a provided title that is empty, blank or longer than 100
\* characters it raises ValueError and changes no field of the todo, even
\* when description or completed are provided too; otherwise it returns
\* True, gives each provided field its value and leaves the others alone.
C34_UpdateAllOrNothing ==
    [][ConsoleUpdateStep =>
         LET id == console'.result.id
             args == console'.result.args
             old == TodoAt(console, id)
             new == TodoAt(console', id)
         IN IF id \notin Stored(console)
            THEN /\ console'.result.returned = "False"
                 /\ console'.result.raised = None
                 /\ StorageUnchanged
            ELSE IF args.title # None /\ TitleRefused(args.title)
            THEN /\ console'.result.raised \in {MsgTitleEmpty, MsgTitleTooLong}
                 /\ console'.result.returned = None
                 /\ StorageUnchanged
            ELSE /\ console'.result.returned = "True"
                 /\ console'.result.raised = None
                 /\ new.title = IF args.title # None THEN args.title
                                ELSE old.title
                 /\ new.description =
                      IF args.description # None THEN args.description
                      ELSE old.description
                 /\ new.completed = IF args.completed # <<>>
                                    THEN args.completed[1] ELSE old.completed
                 /\ new.id = old.id /\ new.created_at = old.created_at
                 /\ \A r \in Refs \ {console._todos[id]} :
                       console'.objects[r] = console.objects[r]
                 /\ console'._todos = console._todos
                 /\ console'._next_id = console._next_id]_vars

\* an update with an empty title, a description and completed = True has
\* raised, and the stored todo has neither the description nor the flag
C34_Witness ==
    /\ console.result.op = "update"
    /\ console.result.raised = MsgTitleEmpty
    /\ console.result.args.description = "later"
    /\ console.result.args.completed = <<TRUE>>
    /\ console.result.id \in Stored(console)
    /\ TodoAt(console, console.result.id).description # "later"
    /\ ~TodoAt(console, console.result.id).completed

\* C35: every todo the storage holds has a title that is not empty, not
\* blank and at most 100 characters long, whatever Todo objects were
\* constructed and whatever add, update and delete calls were made.
C35_StoredTitlesValid ==
    \A k \in Stored(console) :
        LET title == TodoAt(console, k).title
        IN /\ title # None /\ title # ""
           /\ Strip(title) # ""
           /\ Len(title) <= MaxTitleLen

\* a stored todo has a title of exactly 100 characters, and the latest call
\* was an update of it with a title of 101 characters, which raised
C35_Witness ==
    /\ console.result.op = "update"
    /\ console.result.raised = MsgTitleTooLong
    /\ console.result.id \in Stored(console)
    /\ Len(TodoAt(console, console.result.id).title) = MaxTitleLen

====
